---------------------------- MODULE Spec2Model ----------------------------
(***************************************************************************)
(* JustTheChip: the cutting-parameter solver (SpeedsFeedsCalculator).      *)
(*                                                                         *)
(* Numbers of the program are JavaScript doubles.  They are modelled as    *)
(* exact rationals <<n, d>> with d > 0 in lowest terms, so that equalities *)
(* and comparisons of the code are decided exactly.  Math.sqrt and         *)
(* Math.tan, whose values are irrational in general, are computed to a     *)
(* stated precision.  The non-number values undefined and null are the     *)
(* two pairs with a zero denominator.  The rounding of the doubles is      *)
(* modelled separately, for the power balancer, in the section "Rounded    *)
(* arithmetic".                                                            *)
(*                                                                         *)
(* calc  - the calculator object: the request it was constructed for and   *)
(*         this.warnings                                                   *)
(* run   - the outcome of the last calculate(): returned or threw, the     *)
(*         local variables at its end, the warnings and the result record  *)
(* probe - the argument and value of the last call of a single method      *)
(***************************************************************************)
EXTENDS Integers, Sequences, FiniteSets, TLC

VARIABLES calc, run, probe

vars == <<calc, run, probe>>

-----------------------------------------------------------------------------
(* Rational arithmetic                                                     *)

Abs(x) == IF x < 0 THEN -x ELSE x

RECURSIVE GCD(_, _)
GCD(a, b) == IF b = 0 THEN a ELSE GCD(b, a % b)

Undefined == <<0, 0>>
Null == <<1, 0>>
NaN == <<2, 0>>

IsNum(q) == q[2] # 0

\* the rational n/d in lowest terms (d # 0)
Q(n, d) ==
    LET s == IF d < 0 THEN -1 ELSE 1
        g == GCD(Abs(n), Abs(d))
    IN  IF n = 0 THEN <<0, 1>> ELSE <<(s * n) \div g, Abs(d) \div g>>

I(n) == <<n, 1>>

Mul(a, b) ==
    IF a[1] = 0 \/ b[1] = 0 THEN <<0, 1>>
    ELSE LET g1 == GCD(Abs(a[1]), b[2])
             g2 == GCD(Abs(b[1]), a[2])
         IN  <<(a[1] \div g1) * (b[1] \div g2), (a[2] \div g2) * (b[2] \div g1)>>

Inv(a) == IF a[1] < 0 THEN <<-a[2], -a[1]>> ELSE <<a[2], a[1]>>

Div(a, b) == Mul(a, Inv(b))

Add(a, b) ==
    LET g == GCD(a[2], b[2])
    IN  Q(a[1] * (b[2] \div g) + b[1] * (a[2] \div g), (a[2] \div g) * b[2])

Neg(a) == <<-a[1], a[2]>>

Sub(a, b) == Add(a, Neg(b))

\* n1/d1 < n2/d2 for non-negative numerators, by comparing the integer parts
\* and then the reciprocals of the fractional parts (no product is formed)
RECURSIVE LtPos(_, _, _, _)
LtPos(n1, d1, n2, d2) ==
    LET q1 == n1 \div d1
        q2 == n2 \div d2
        r1 == n1 % d1
        r2 == n2 % d2
    IN  IF q1 # q2 THEN q1 < q2
        ELSE IF r2 = 0 THEN FALSE
        ELSE IF r1 = 0 THEN TRUE
        ELSE LtPos(d2, r2, d1, r1)

Lt(a, b) ==
    IF a[1] < 0 /\ b[1] >= 0 THEN TRUE
    ELSE IF a[1] >= 0 /\ b[1] < 0 THEN FALSE
    ELSE IF a[1] < 0 THEN LtPos(-b[1], b[2], -a[1], a[2])
    ELSE LtPos(a[1], a[2], b[1], b[2])

Le(a, b) == ~Lt(b, a)

Gt(a, b) == Lt(b, a)

Min2(a, b) == IF Lt(b, a) THEN b ELSE a

\* JavaScript's a || b on numbers: undefined, null and 0 are falsy
Or(a, b) == IF ~IsNum(a) \/ a[1] = 0 THEN b ELSE a

\* Math.round of a >= 0: the nearest integer, halves rounded up
Round(a) ==
    LET q == a[1] \div a[2]
        r == a[1] % a[2]
    IN  IF r >= a[2] - r THEN q + 1 ELSE q

Pow10(k) == IF k = 0 THEN 1 ELSE IF k = 1 THEN 10 ELSE IF k = 2 THEN 100
            ELSE IF k = 3 THEN 1000 ELSE 10000

\* the fractional part r/d of a number scaled by 10^k <= 10^4; a
\* denominator above 10^5 is first scaled down to it, so that no product
\* leaves the range of the model's integers
ScaledFraction(r, d, k) ==
    LET f == d \div 100000 + 1
    IN  Q((r \div f) * Pow10(k), d \div f)

\* parseFloat(x.toFixed(k)): x >= 0 rounded to k decimals
ToFixed(a, k) ==
    Q((a[1] \div a[2]) * Pow10(k) + Round(ScaledFraction(a[1] % a[2], a[2], k)),
      Pow10(k))

\* a >= 0 cut to k decimals
Truncate(a, k) ==
    LET sf == ScaledFraction(a[1] % a[2], a[2], k)
    IN  Q((a[1] \div a[2]) * Pow10(k) + sf[1] \div sf[2], Pow10(k))

RECURSIVE ISqrtIn(_, _, _)
ISqrtIn(n, lo, hi) ==
    IF lo = hi THEN lo
    ELSE LET mid == (lo + hi + 1) \div 2
         IN  IF mid * mid <= n THEN ISqrtIn(n, mid, hi) ELSE ISqrtIn(n, lo, mid - 1)

\* the integer square root of n < 2^30
ISqrt(n) == ISqrtIn(n, 0, 32767)

\* Math.sqrt: exact when numerator and denominator are squares, else
\* truncated to 1/10 of the denominator
Sqrt(a) ==
    LET rn == ISqrt(a[1])
        rd == ISqrt(a[2])
    IN  IF rn * rn = a[1] /\ rd * rd = a[2] THEN <<rn, rd>>
        ELSE Q(ISqrt(a[1] * a[2] * 100), a[2] * 10)

\* Math.PI to the precision of 22/7
PI == Q(22, 7)

\* Math.tan(deg * Math.PI / 180) for the angles of the sample tools
Tan(deg) ==
    CASE deg = 45 -> I(1)
      [] deg = 30 -> Q(4, 7)
      [] deg = 5 -> Q(7, 80)
      [] OTHER -> I(0)

\* table[key], undefined when the key is missing
Lookup(table, key) == IF key \in DOMAIN table THEN table[key] ELSE Undefined

-----------------------------------------------------------------------------
(* Catalog data handed to the solver                                       *)

\* CUT_TYPES: the engagement fraction ranges of each cut type; an entry that
\* gives a single ae_fraction has ae_fraction_range undefined
CutDef(aeFraction, aeLo, aeHi, apLo, apHi) ==
    [ae_fraction |-> aeFraction,
     ae_fraction_range |-> <<aeLo, aeHi>>,
     ap_fraction_range |-> <<apLo, apHi>>]

CUT_TYPES ==
    [slot        |-> CutDef(I(1), Undefined, Undefined, Q(8, 10), I(1)),
     profile     |-> CutDef(Undefined, Q(2, 10), Q(4, 10), I(1), Q(15, 10)),
     adaptive    |-> CutDef(Undefined, Q(1, 10), Q(2, 10), Q(15, 10), I(3)),
     facing      |-> CutDef(Undefined, Q(6, 10), Q(8, 10), Q(1, 10), Q(3, 10)),
     plunge      |-> CutDef(I(1), Undefined, Undefined, Q(1, 10), Q(3, 10)),
     chamfer     |-> CutDef(Undefined, Q(3, 10), Q(5, 10), Q(5, 10), I(1)),
     deburr      |-> CutDef(Undefined, Q(1, 10), Q(2, 10), Q(1, 10), Q(3, 10)),
     countersink |-> CutDef(I(1), Undefined, Undefined, Q(2, 10), Q(5, 10)),
     vcarve      |-> CutDef(Undefined, Q(8, 10), I(1), Q(5, 10), I(1)),
     engraving   |-> CutDef(Undefined, Q(5, 10), Q(8, 10), Q(1, 10), Q(3, 10)),
     shoulder    |-> CutDef(Undefined, Q(3, 10), Q(5, 10), Q(8, 10), Q(12, 10)),
     ramping     |-> CutDef(Undefined, Q(4, 10), Q(6, 10), Q(2, 10), Q(4, 10)),
     drilling    |-> CutDef(I(1), Undefined, Undefined, I(2), I(5)),
     spot_drill  |-> CutDef(I(1), Undefined, Undefined, Q(2, 10), Q(5, 10)),
     peck_drill  |-> CutDef(I(1), Undefined, Undefined, Q(5, 10), Q(15, 10)),
     thread_mill |-> CutDef(Undefined, Q(6, 10), Q(8, 10), Q(3, 10), Q(5, 10)),
     helical     |-> CutDef(Undefined, Q(4, 10), Q(6, 10), Q(2, 10), Q(4, 10)),
     contour_3d  |-> CutDef(Undefined, Q(1, 10), Q(3, 10), Q(1, 10), Q(5, 10)),
     draft_angle |-> CutDef(Undefined, Q(2, 10), Q(4, 10), Q(8, 10), Q(15, 10)),
     boring      |-> CutDef(I(1), Undefined, Undefined, Q(3, 10), Q(6, 10)),
     internal_profile |-> CutDef(Undefined, Q(2, 10), Q(4, 10), Q(5, 10), I(1)),
     slitting    |-> CutDef(I(1), Undefined, Undefined, I(8), I(15)),
     grooving    |-> CutDef(I(1), Undefined, Undefined, I(5), I(10))]

\* TOOL_TYPES: the ten tool variants
ToolTypes ==
    {"endmill_flat", "endmill_ball", "chamfer", "vbit", "facemill", "drill",
     "threadmill", "tapered", "boring", "slitting"}

\* a tool record with every field undefined
NoTool ==
    [type |-> "", diameter_mm |-> Undefined, flutes |-> Undefined,
     stickout_mm |-> Undefined, shank_mm |-> Undefined, material |-> "carbide",
     angle_deg |-> 0, tip_diameter_mm |-> Undefined, taper_angle_deg |-> 0,
     flute_length_mm |-> Undefined, min_bore_diameter_mm |-> Undefined,
     insert_count |-> Undefined, teeth |-> Undefined]

\* sample tools, one or more per variant, with the parameters TOOL_TYPES lists
Tools ==
    {[NoTool EXCEPT !.type = "endmill_flat", !.diameter_mm = I(6), !.flutes = I(2),
                    !.stickout_mm = I(20), !.shank_mm = I(6)],
     [NoTool EXCEPT !.type = "endmill_flat", !.diameter_mm = Q(1, 2), !.flutes = I(2),
                    !.stickout_mm = I(10), !.shank_mm = I(3)],
     [NoTool EXCEPT !.type = "endmill_flat", !.diameter_mm = I(10), !.flutes = I(4),
                    !.stickout_mm = I(40), !.shank_mm = I(10), !.material = "hss"],
     [NoTool EXCEPT !.type = "endmill_ball", !.diameter_mm = I(4),
                    !.stickout_mm = I(40), !.shank_mm = I(3)],
     [NoTool EXCEPT !.type = "chamfer", !.diameter_mm = I(6), !.flutes = I(4),
                    !.angle_deg = 90, !.tip_diameter_mm = I(1)],
     [NoTool EXCEPT !.type = "vbit", !.angle_deg = 90, !.tip_diameter_mm = I(1),
                    !.flutes = I(2)],
     [NoTool EXCEPT !.type = "facemill", !.diameter_mm = I(50), !.insert_count = I(4)],
     [NoTool EXCEPT !.type = "drill", !.diameter_mm = I(6), !.flutes = I(2),
                    !.flute_length_mm = I(30)],
     [NoTool EXCEPT !.type = "threadmill", !.diameter_mm = I(6), !.flutes = I(3)],
     [NoTool EXCEPT !.type = "tapered", !.tip_diameter_mm = I(2), !.taper_angle_deg = 5,
                    !.flutes = I(2), !.flute_length_mm = I(20), !.diameter_mm = I(6)],
     [NoTool EXCEPT !.type = "boring", !.min_bore_diameter_mm = I(10),
                    !.diameter_mm = I(8)],
     [NoTool EXCEPT !.type = "slitting", !.diameter_mm = I(50), !.teeth = I(40)]}

\* Materials of the shape of MATERIALS: the engagement limits, chip-load
\* multipliers, force coefficients and cutting energies of al_6061_t6 and
\* steel_1018 with surface-speed and chip-load ranges rounded to short
\* fractions, and a caller-supplied material that has no chip-thinning
\* threshold, no specific cutting energy and sparse tables
Bucket(maxD, lo, hi) == [max_d_mm |-> I(maxD), range |-> <<lo, hi>>]

Materials ==
    {[id |-> "al_6061_t6", category |-> "metal",
      vc_range |-> <<I(88), I(352)>>,
      fz_mm_per_tooth_by_diameter |->
          <<Bucket(3, Q(10, 1000), Q(30, 1000)), Bucket(6, Q(20, 1000), Q(60, 1000)),
            Bucket(10, Q(40, 1000), Q(80, 1000)), Bucket(20, Q(60, 1000), Q(140, 1000))>>,
      toolChiploadFactors |->
          [endmill_flat |-> I(1), endmill_ball |-> Q(8, 10), chamfer |-> Q(7, 10),
           vbit |-> Q(6, 10), facemill |-> Q(13, 10), drill |-> Q(5, 10),
           threadmill |-> Q(4, 10), tapered |-> Q(85, 100), boring |-> Q(7, 10),
           slitting |-> Q(6, 10)],
      max_radial_engagement_fraction |->
          [slot |-> I(1), profile |-> Q(35, 100), adaptive |-> Q(15, 100),
           facing |-> Q(75, 100), chamfer |-> Q(4, 10), vcarve |-> Q(8, 10),
           drilling |-> I(1), boring |-> I(1)],
      max_axial_per_pass_D |->
          [slot |-> I(1), profile |-> Q(15, 10), adaptive |-> I(2),
           facing |-> Q(2, 10), chamfer |-> Q(5, 10), vcarve |-> Q(8, 10),
           drilling |-> I(3), boring |-> Q(5, 10)],
      chip_thinning |-> Q(5, 10),
      force_coeff_KN_mm2 |-> Q(7, 10),
      specific_cutting_energy_J_mm3 |-> Q(5, 10)],
     [id |-> "steel_1018", category |-> "metal",
      vc_range |-> <<I(22), I(88)>>,
      fz_mm_per_tooth_by_diameter |->
          <<Bucket(3, Q(4, 1000), Q(12, 1000)), Bucket(6, Q(10, 1000), Q(30, 1000)),
            Bucket(10, Q(20, 1000), Q(40, 1000)), Bucket(20, Q(30, 1000), Q(50, 1000))>>,
      toolChiploadFactors |->
          [endmill_flat |-> I(1), endmill_ball |-> Q(7, 10), chamfer |-> Q(6, 10),
           vbit |-> Q(5, 10), facemill |-> Q(12, 10), drill |-> Q(4, 10),
           threadmill |-> Q(3, 10), tapered |-> Q(75, 100), boring |-> Q(6, 10),
           slitting |-> Q(5, 10)],
      max_radial_engagement_fraction |->
          [slot |-> I(1), profile |-> Q(25, 100), adaptive |-> Q(10, 100),
           facing |-> Q(6, 10), chamfer |-> Q(3, 10), vcarve |-> Q(6, 10),
           drilling |-> I(1), boring |-> I(1)],
      max_axial_per_pass_D |->
          [slot |-> Q(5, 10), profile |-> Q(8, 10), adaptive |-> Q(12, 10),
           facing |-> Q(1, 10), chamfer |-> Q(3, 10), vcarve |-> Q(4, 10),
           drilling |-> I(2), boring |-> Q(3, 10)],
      chip_thinning |-> Q(5, 10),
      force_coeff_KN_mm2 |-> Q(18, 10),
      specific_cutting_energy_J_mm3 |-> Q(25, 10)],
     [id |-> "user_plastic", category |-> "plastic",
      vc_range |-> <<I(110), I(550)>>,
      fz_mm_per_tooth_by_diameter |->
          <<Bucket(3, Q(20, 1000), Q(60, 1000)), Bucket(6, Q(50, 1000), Q(150, 1000))>>,
      toolChiploadFactors |-> [endmill_flat |-> I(1), drill |-> Q(5, 10)],
      max_radial_engagement_fraction |-> [slot |-> I(1), profile |-> Q(5, 10)],
      max_axial_per_pass_D |-> [slot |-> I(2), profile |-> I(3)],
      chip_thinning |-> Undefined,
      force_coeff_KN_mm2 |-> Q(1, 10),
      specific_cutting_energy_J_mm3 |-> Undefined]}

\* MACHINE_PRESETS: custom (no feed ceilings), light_hobby, printnc, vmc_like
\* an object that is not there (undefined): the function with no fields
NoObject == <<>>

HasObject(o) == DOMAIN o # {}

Feeds(fx, fy, fz) == [x |-> I(fx), y |-> I(fy), z |-> I(fz)]

Machine(id, K, radial, axial, feed, maxFeed) ==
    [id |-> id, K_rigidity |-> K,
     aggressiveness |-> [radial |-> radial, axial |-> axial, feed |-> feed],
     max_feed_mm_min |-> maxFeed]

Machines ==
    {Machine("custom", I(1), I(1), I(1), I(1), NoObject),
     Machine("light_hobby", Q(6, 10), Q(6, 10), Q(6, 10), Q(7, 10),
             Feeds(3000, 3000, 1000)),
     Machine("printnc", I(1), I(1), I(1), I(1), Feeds(6000, 6000, 2000)),
     Machine("vmc_like", I(2), Q(14, 10), Q(14, 10), Q(14, 10),
             Feeds(15000, 15000, 6000))}

\* SPINDLE_TYPES: three of the presets
Spindle(id, kW, lo, hi, base) ==
    [id |-> id, rated_power_kW |-> kW, rpm_min |-> I(lo), rpm_max |-> I(hi),
     base_rpm |-> I(base)]

Spindles ==
    {Spindle("dewalt_611", Q(125, 100), 16000, 27000, 16000),
     Spindle("water_2_2kw", Q(22, 10), 6000, 24000, 12000),
     Spindle("manual_r8", Q(15, 10), 100, 4000, 1000)}

-----------------------------------------------------------------------------
(* SpeedsFeedsCalculator: the methods, with c the calculator (this)        *)

Warn(type, message, args) == [type |-> type, message |-> message, args |-> args]

\* the constructor; an omitted userDOC defaults to null
NewCalculator(machine, spindle, tool, material, cutType, aggressiveness, userDOC) ==
    [machine |-> machine, spindle |-> spindle, tool |-> tool, material |-> material,
     cutType |-> cutType, aggressiveness |-> aggressiveness,
     userDOC |-> IF userDOC = Undefined THEN Null ELSE userDOC,
     warnings |-> <<>>]

getEffectiveDiameter(c) ==
    CASE c.tool.type = "vbit" ->
             Add(c.tool.tip_diameter_mm,
                 Mul(I(2 * 2), Tan(c.tool.angle_deg \div 2)))
      [] c.tool.type = "tapered" ->
             Add(c.tool.tip_diameter_mm,
                 Mul(Or(c.tool.flute_length_mm, I(10)), Tan(c.tool.taper_angle_deg)))
      [] c.tool.type = "boring" -> c.tool.min_bore_diameter_mm
      [] OTHER -> c.tool.diameter_mm

getEffectiveFlutes(c) ==
    CASE c.tool.type = "facemill" -> Or(c.tool.insert_count, I(4))
      [] c.tool.type = "slitting" -> Or(c.tool.teeth, I(40))
      [] c.tool.type = "boring" -> I(1)
      [] OTHER -> Or(c.tool.flutes, I(2))

speedFactors ==
    [slot |-> I(1), profile |-> Q(12, 10), adaptive |-> Q(13, 10),
     facing |-> Q(11, 10), drilling |-> Q(8, 10), boring |-> Q(9, 10)]

getSpeedFactor(c) == Or(Lookup(speedFactors, c.cutType), I(1))

RECURSIVE ChiploadFrom(_, _, _)
ChiploadFrom(ranges, diameter, i) ==
    IF i > Len(ranges) THEN ranges[Len(ranges)].range
    ELSE IF Le(diameter, ranges[i].max_d_mm) THEN ranges[i].range
    ELSE ChiploadFrom(ranges, diameter, i + 1)

\* getChiploadRange comparing with < in place of <=
getChiploadRangeStrict(c, diameter) ==
    LET ranges == c.material.fz_mm_per_tooth_by_diameter
        fits == {i \in DOMAIN ranges : Lt(diameter, ranges[i].max_d_mm)}
    IN  IF fits = {} THEN ranges[Len(ranges)].range
        ELSE ranges[CHOOSE i \in fits : \A k \in fits : i <= k].range

getChiploadRange(c, diameter) ==
    ChiploadFrom(c.material.fz_mm_per_tooth_by_diameter, diameter, 1)

\* the fixed structure returned for every cut type
getCutDefinition(c) ==
    [ae_fraction |-> Q(3, 10),
     ae_fraction_range |-> <<Undefined, Undefined>>,
     ap_fraction_range |-> <<Q(5, 10), I(1)>>]

\* the material's limit fractions for the cut type, with the defaults of
\* getBaseEngagementParams for a cut type the material does not list
maxRadialFraction(c) ==
    Or(Lookup(c.material.max_radial_engagement_fraction, c.cutType), Q(3, 10))

maxAxialFraction(c) ==
    Or(Lookup(c.material.max_axial_per_pass_D, c.cutType), I(1))

\* the drill branch with the depth scaled by the machine's aggressiveness
drillEngagementScaled(c, D) ==
    [ae |-> D, ap |-> Mul(Mul(D, Q(5, 10)), c.machine.aggressiveness.axial)]

\* getBaseEngagementParams, the branch of a drill
drillEngagement(c, D) == [ae |-> D, ap |-> Mul(D, Q(5, 10))]

\* getBaseEngagementParams without the material's axial limit
getBaseEngagementParamsUnlimited(c, D) ==
    LET cutDef == getCutDefinition(c)
    IN  IF c.tool.type = "drill" THEN drillEngagement(c, D)
        ELSE IF c.tool.type = "vbit" THEN
            LET estimatedDepth == Add(c.tool.tip_diameter_mm, I(2))
            IN  [ae |-> Mul(Mul(estimatedDepth, Tan(c.tool.angle_deg \div 2)), I(2)),
                 ap |-> estimatedDepth]
        ELSE
            LET aeRange == IF IsNum(cutDef.ae_fraction_range[1])
                           THEN cutDef.ae_fraction_range
                           ELSE <<cutDef.ae_fraction, cutDef.ae_fraction>>
                aeFraction == Div(Add(aeRange[1], aeRange[2]), I(2))
                maxAe == Mul(D, maxRadialFraction(c))
                ae == IF c.cutType = "slot" THEN D
                      ELSE Mul(Min2(Mul(D, aeFraction), maxAe),
                               c.machine.aggressiveness.radial)
                apRange == cutDef.ap_fraction_range
                apFraction == Div(Add(apRange[1], apRange[2]), I(2))
                ap == Mul(Mul(D, apFraction), c.machine.aggressiveness.axial)
            IN  [ae |-> ae, ap |-> ap]

getBaseEngagementParams(c, D) ==
    LET cutDef == getCutDefinition(c)
    IN  IF c.tool.type = "drill" THEN drillEngagement(c, D)
        ELSE IF c.tool.type = "vbit" THEN
            LET estimatedDepth == Add(c.tool.tip_diameter_mm, I(2))
            IN  [ae |-> Mul(Mul(estimatedDepth, Tan(c.tool.angle_deg \div 2)), I(2)),
                 ap |-> estimatedDepth]
        ELSE
            LET aeRange == IF IsNum(cutDef.ae_fraction_range[1])
                           THEN cutDef.ae_fraction_range
                           ELSE <<cutDef.ae_fraction, cutDef.ae_fraction>>
                aeFraction == Div(Add(aeRange[1], aeRange[2]), I(2))
                maxAe == Mul(D, maxRadialFraction(c))
                ae == IF c.cutType = "slot" THEN D
                      ELSE Mul(Min2(Mul(D, aeFraction), maxAe),
                               c.machine.aggressiveness.radial)
                apRange == cutDef.ap_fraction_range
                apFraction == Div(Add(apRange[1], apRange[2]), I(2))
                maxAp == Mul(D, maxAxialFraction(c))
                ap == Mul(Min2(Mul(D, apFraction), maxAp),
                          c.machine.aggressiveness.axial)
            IN  [ae |-> ae, ap |-> ap]

getMaxAllowableDOC(c, D) ==
    Mul(D, Or(Lookup(c.material.max_axial_per_pass_D, c.cutType), I(1)))

\* getEngagementParams that holds a user depth of cut to the material's limit
getEngagementParamsLimiting(c, D) ==
    LET base == getBaseEngagementParams(c, D)
        maxAp == getMaxAllowableDOC(c, D)
        ap == IF c.userDOC # Null THEN Min2(c.userDOC, maxAp) ELSE base.ap
    IN  [ae |-> base.ae, ap |-> ap,
         pushed |-> IF c.userDOC # Null /\ Gt(c.userDOC, maxAp)
                    THEN <<Warn("warning", "User DOC exceeds recommended maximum",
                                <<ToFixed(ap, 2), ToFixed(maxAp, 2)>>)>>
                    ELSE <<>>]

\* returns ae, ap and the warnings it pushes
getEngagementParams(c, D) ==
    LET base == getBaseEngagementParams(c, D)
        ap == IF c.userDOC # Null THEN c.userDOC ELSE base.ap
        maxAp == getMaxAllowableDOC(c, D)
    IN  [ae |-> base.ae, ap |-> ap,
         pushed |-> IF c.userDOC # Null /\ Gt(ap, maxAp)
                    THEN <<Warn("warning", "User DOC exceeds recommended maximum",
                                <<ToFixed(ap, 2), ToFixed(maxAp, 2)>>)>>
                    ELSE <<>>]

\* String.includes on the ids of the sample materials
Includes(id, word) == <<id, word>> \in {<<"steel_1018", "steel">>}

getSpecificCuttingEnergy(c) ==
    CASE c.material.category = "metal" ->
             IF Includes(c.material.id, "aluminum") THEN Q(5, 10)
             ELSE IF Includes(c.material.id, "steel") THEN Q(25, 10)
             ELSE IF Includes(c.material.id, "stainless") THEN Q(35, 10)
             ELSE IF Includes(c.material.id, "titanium") THEN I(5)
             ELSE I(2)
      [] c.material.category = "plastic" -> Q(1, 10)
      [] c.material.category = "wood" -> Q(5, 100)
      [] OTHER -> I(1)

getToolPowerFactor(c) ==
    CASE c.tool.type = "facemill" -> Q(7, 10)
      [] c.tool.type = "slitting" -> Q(12, 10)
      [] c.tool.type = "drill" -> Q(11, 10)
      [] c.tool.type = "endmill_ball" -> Q(9, 10)
      [] OTHER -> I(1)

calculateImprovedPower(c, ae, ap, vf) ==
    LET MRR_mm3_min == Mul(Mul(ae, ap), vf)
        specificEnergy == Or(c.material.specific_cutting_energy_J_mm3,
                             getSpecificCuttingEnergy(c))
        cuttingPower0 == Div(Mul(MRR_mm3_min, specificEnergy), I(60))
        cuttingPower1 == Mul(cuttingPower0, getToolPowerFactor(c))
        cuttingPower == Mul(cuttingPower1, c.machine.K_rigidity)
        spindleLosses == Mul(cuttingPower, Q(15, 100))
    IN  Add(cuttingPower, spindleLosses)

calculateMRR(c, D, ae, ap, vf) ==
    IF c.tool.type = "drill"
    THEN Mul(Div(Mul(Mul(PI, D), D), I(4)), vf)
    ELSE Mul(Mul(ae, ap), vf)

getSpindlePowerAtRPM(c, rpm) ==
    LET s == c.spindle
        efficiency == Q(85, 100)
        torqueRatio == Min2(Div(rpm, Mul(s.rpm_min, Q(15, 10))), I(1))
        availablePower ==
            IF Le(rpm, s.base_rpm)
            THEN Mul(Mul(Mul(s.rated_power_kW, I(1000)), Div(rpm, s.base_rpm)),
                     torqueRatio)
            ELSE Mul(s.rated_power_kW, I(1000))
    IN  IF Lt(rpm, s.rpm_min) \/ Gt(rpm, s.rpm_max) THEN I(0)
        ELSE Mul(availablePower, efficiency)

calculateCuttingForce(c, ae, ap, fz) ==
    LET K == c.material.force_coeff_KN_mm2
        area == Mul(ae, fz)
        forceFactor ==
            IF c.tool.type = "drill" THEN Q(15, 10)
            ELSE IF c.tool.type = "vbit" \/ c.tool.type = "chamfer" THEN Q(7, 10)
            ELSE IF c.tool.type = "facemill" THEN Q(6, 10)
            ELSE I(1)
    IN  Mul(Mul(Mul(K, area), I(1000)), forceFactor)

CARBIDE_YOUNGS_MODULUS == 600000
HSS_YOUNGS_MODULUS == 210000

\* bending + shear + holder deflection.  Each term of the code is force
\* times a compliance of the tool; the exact sum does not fit the model's
\* integers, so the force is taken to 0.1 N and the summed compliance to
\* 1e-6 mm/N (in the code both carry the 53 bits of a double).
calculateImprovedDeflection(c, force) ==
    LET L == Or(c.tool.stickout_mm, I(20))
        d == Or(c.tool.shank_mm, c.tool.diameter_mm)
        E == IF c.tool.material = "hss" THEN I(HSS_YOUNGS_MODULUS)
             ELSE I(CARBIDE_YOUNGS_MODULUS)
        \* I = PI d^4 / 64
        Iarea == Div(Mul(PI, Mul(Mul(d, d), Mul(d, d))), I(64))
        \* L^3 / (3 E I), in micrometres per newton
        bendingCompliance ==
            Div(Div(Div(Mul(I(1000), Mul(Mul(L, L), L)), I(3)), E), Iarea)
        G == Div(E, Q(26, 10))
        A == Div(Mul(PI, Mul(d, d)), I(4))
        \* (1.2 L) / (G A), in micrometres per newton
        shearCompliance == Div(Div(Mul(Mul(Q(12, 10), I(1000)), L), G), A)
        \* 0.002 mm/N, in micrometres per newton
        holderCompliance == Mul(Q(2, 1000), I(1000))
        compliance ==
            Add(Add(Truncate(bendingCompliance, 3), Truncate(shearCompliance, 3)),
                holderCompliance)
    IN  Div(Mul(Truncate(force, 1), compliance), I(1000))

\* validateChipload with the rubbing check applied to every tool type
validateChiploadEveryTool(c, fzAdjusted, fzRange) ==
    LET minChipload == Mul(fzRange[1], Q(5, 10))
        maxChipload == Mul(fzRange[2], Q(15, 10))
    IN  (IF Lt(fzAdjusted, minChipload)
         THEN <<Warn("danger", "Chipload too low - rubbing risk", <<>>)>>
         ELSE <<>>)
        \o
        (IF Gt(fzAdjusted, maxChipload)
         THEN <<Warn("warning", "Chipload very high - check tool strength", <<>>)>>
         ELSE <<>>)

\* the warnings validateChipload pushes
validateChipload(c, fzAdjusted, fzRange) ==
    LET minChipload == Mul(fzRange[1], Q(5, 10))
        maxChipload == Mul(fzRange[2], Q(15, 10))
    IN  (IF Lt(fzAdjusted, minChipload) /\ c.tool.type \notin {"drill", "boring"}
         THEN <<Warn("danger", "Chipload too low - rubbing risk", <<>>)>>
         ELSE <<>>)
        \o
        (IF Gt(fzAdjusted, maxChipload)
         THEN <<Warn("warning", "Chipload very high - check tool strength", <<>>)>>
         ELSE <<>>)

\* addToolSpecificWarnings with its checks chained by else: only the first
\* condition that holds pushes its warning
addToolSpecificWarningsFirstOnly(c, D, ap, vf, cuttingForce) ==
    IF c.tool.type = "vbit" /\ Gt(ap, Mul(D, Q(5, 10)))
    THEN <<Warn("warning", "Deep V-carve - consider multiple passes", <<>>)>>
    ELSE IF c.tool.type = "slitting" /\ Gt(vf, I(500))
    THEN <<Warn("warning", "High feed for slitting saw - watch for blade flex", <<>>)>>
    ELSE IF c.tool.type = "boring" /\ Gt(cuttingForce, I(100))
    THEN <<Warn("warning", "High boring force - check bar rigidity", <<>>)>>
    ELSE IF Lt(D, I(1)) /\ Gt(cuttingForce, I(10))
    THEN <<Warn("warning", "Small tool - risk of breakage", <<>>)>>
    ELSE IF c.userDOC # Null /\ Gt(c.userDOC, Mul(D, I(2)))
    THEN <<Warn("warning", "Very deep DOC - ensure adequate chip evacuation", <<>>)>>
    ELSE <<>>

\* the warnings addToolSpecificWarnings pushes
addToolSpecificWarnings(c, D, ap, vf, cuttingForce) ==
    (IF c.tool.type = "vbit" /\ Gt(ap, Mul(D, Q(5, 10)))
     THEN <<Warn("warning", "Deep V-carve - consider multiple passes", <<>>)>>
     ELSE <<>>)
    \o
    (IF c.tool.type = "slitting" /\ Gt(vf, I(500))
     THEN <<Warn("warning", "High feed for slitting saw - watch for blade flex", <<>>)>>
     ELSE <<>>)
    \o
    (IF c.tool.type = "boring" /\ Gt(cuttingForce, I(100))
     THEN <<Warn("warning", "High boring force - check bar rigidity", <<>>)>>
     ELSE <<>>)
    \o
    (IF Lt(D, I(1)) /\ Gt(cuttingForce, I(10))
     THEN <<Warn("warning", "Small tool - risk of breakage", <<>>)>>
     ELSE <<>>)
    \o
    (IF c.userDOC # Null /\ Gt(c.userDOC, Mul(D, I(2)))
     THEN <<Warn("warning", "Very deep DOC - ensure adequate chip evacuation", <<>>)>>
     ELSE <<>>)

\* DeflectionWarnings with the thresholds themselves counted as exceeded
DeflectionWarningsInclusive(deflection) ==
    IF Le(Q(5, 100), deflection)
    THEN <<Warn("danger", "High deflection", <<ToFixed(deflection, 3)>>)>>
    ELSE IF Le(Q(2, 100), deflection)
    THEN <<Warn("warning", "Moderate deflection", <<ToFixed(deflection, 3)>>)>>
    ELSE <<>>

\* the deflection warning calculate() pushes for a deflection
DeflectionWarnings(deflection) ==
    IF Gt(deflection, Q(5, 100))
    THEN <<Warn("danger", "High deflection", <<ToFixed(deflection, 3)>>)>>
    ELSE IF Gt(deflection, Q(2, 100))
    THEN <<Warn("warning", "Moderate deflection", <<ToFixed(deflection, 3)>>)>>
    ELSE <<>>

\* ClampRPM that also clamps, and warns, at the bounds themselves
ClampRPMInclusive(c, rpm0) ==
    IF Le(rpm0, c.spindle.rpm_min)
    THEN [rpm |-> c.spindle.rpm_min,
          pushed |-> <<Warn("warning", "RPM limited by spindle minimum", <<>>)>>]
    ELSE IF ~Lt(rpm0, c.spindle.rpm_max)
    THEN [rpm |-> c.spindle.rpm_max,
          pushed |-> <<Warn("warning", "RPM limited by spindle maximum", <<>>)>>]
    ELSE [rpm |-> rpm0, pushed |-> <<>>]

\* ClampRPM without the warning for the upper bound
ClampRPMSilentMaximum(c, rpm0) ==
    IF Lt(rpm0, c.spindle.rpm_min)
    THEN [rpm |-> c.spindle.rpm_min,
          pushed |-> <<Warn("warning", "RPM limited by spindle minimum", <<>>)>>]
    ELSE IF Gt(rpm0, c.spindle.rpm_max)
    THEN [rpm |-> c.spindle.rpm_max, pushed |-> <<>>]
    ELSE [rpm |-> rpm0, pushed |-> <<>>]

\* calculate(), "Clamp RPM to spindle limits": the clamped rpm and the
\* warning pushed
ClampRPM(c, rpm0) ==
    IF Lt(rpm0, c.spindle.rpm_min)
    THEN [rpm |-> c.spindle.rpm_min,
          pushed |-> <<Warn("warning", "RPM limited by spindle minimum", <<>>)>>]
    ELSE IF Gt(rpm0, c.spindle.rpm_max)
    THEN [rpm |-> c.spindle.rpm_max,
          pushed |-> <<Warn("warning", "RPM limited by spindle maximum", <<>>)>>]
    ELSE [rpm |-> rpm0, pushed |-> <<>>]

\* LimitFeed that keeps the nominal chip load when it clamps the feed
LimitFeedKeepingChipload(maxFeed, rpm, z, fz, vf0) ==
    IF Gt(vf0, maxFeed)
    THEN [vf |-> maxFeed, fzAdjusted |-> fz,
          pushed |-> <<Warn("warning", "Feed limited by machine", <<>>)>>]
    ELSE [vf |-> vf0, fzAdjusted |-> fz, pushed |-> <<>>]

\* calculate(), "Check machine feed limits": vf and fzAdjusted after the check
\* and the warning pushed
LimitFeed(maxFeed, rpm, z, fz, vf0) ==
    IF Gt(vf0, maxFeed)
    THEN [vf |-> maxFeed, fzAdjusted |-> Div(maxFeed, Mul(rpm, z)),
          pushed |-> <<Warn("warning", "Feed limited by machine", <<>>)>>]
    ELSE [vf |-> vf0, fzAdjusted |-> fz, pushed |-> <<>>]

\* LimitPower that scales the feed rate and the MRR but not the chip load
LimitPowerFeedOnly(vf, fzAdjusted, mrr, powerRequired, powerAvailable) ==
    IF Gt(powerRequired, Mul(powerAvailable, Q(9, 10)))
    THEN LET powerRatio == Div(Mul(powerAvailable, Q(85, 100)), powerRequired)
         IN  [vf |-> Mul(vf, powerRatio), fzAdjusted |-> fzAdjusted,
              mrr |-> Mul(mrr, powerRatio), powerRatio |-> powerRatio,
              pushed |-> <<Warn("warning", "Power limited", <<>>)>>]
    ELSE [vf |-> vf, fzAdjusted |-> fzAdjusted, mrr |-> mrr,
          powerRatio |-> Undefined, pushed |-> <<>>]

\* calculate(), "Power limiting": vf, fzAdjusted and mrr after the check, the
\* ratio applied (undefined when none is) and the warning pushed
LimitPower(vf, fzAdjusted, mrr, powerRequired, powerAvailable) ==
    IF Gt(powerRequired, Mul(powerAvailable, Q(9, 10)))
    THEN LET powerRatio == Div(Mul(powerAvailable, Q(85, 100)), powerRequired)
         IN  [vf |-> Mul(vf, powerRatio), fzAdjusted |-> Mul(fzAdjusted, powerRatio),
              mrr |-> Mul(mrr, powerRatio), powerRatio |-> powerRatio,
              pushed |-> <<Warn("warning", "Power limited", <<>>)>>]
    ELSE [vf |-> vf, fzAdjusted |-> fzAdjusted, mrr |-> mrr,
          powerRatio |-> Undefined, pushed |-> <<>>]

\* calculate() is modelled section by section: each section takes the
\* calculator c and the record l of the local variables assigned so far
\* (warnings is this.warnings) and returns the record extended with the
\* locals it assigns.

\* Speeds with the surface speed divided by the aggressiveness
SpeedsDividedByAggressiveness(c) ==
    LET D == getEffectiveDiameter(c)
        vcRange == c.material.vc_range
        vc == Div(Mul(Div(Add(vcRange[1], vcRange[2]), I(2)), getSpeedFactor(c)),
                  c.aggressiveness)
        rpm0 == Div(Mul(vc, I(1000)), Mul(PI, D))
        clamped == ClampRPM(c, rpm0)
    IN  [D |-> D, z |-> getEffectiveFlutes(c), vc |-> vc, rpmNominal |-> rpm0,
         rpm |-> clamped.rpm, warnings |-> clamped.pushed]

\* effective geometry, surface speed, RPM and its clamp
Speeds(c) ==
    LET D == getEffectiveDiameter(c)
        vcRange == c.material.vc_range
        vc == Mul(Mul(Div(Add(vcRange[1], vcRange[2]), I(2)), getSpeedFactor(c)),
                  c.aggressiveness)
        rpm0 == Div(Mul(vc, I(1000)), Mul(PI, D))
        clamped == ClampRPM(c, rpm0)
    IN  [D |-> D, z |-> getEffectiveFlutes(c), vc |-> vc, rpmNominal |-> rpm0,
         rpm |-> clamped.rpm, warnings |-> clamped.pushed]

\* Chipload with the feed rate computed before the chip-thinning correction
ChiploadThinnedAfterFeed(c, l) ==
    LET fzRange == getChiploadRange(c, l.D)
        toolFactor == Or(Lookup(c.material.toolChiploadFactors, c.tool.type), I(1))
        fz0 == Mul(Mul(Div(Add(fzRange[1], fzRange[2]), I(2)), c.aggressiveness),
                   toolFactor)
        eng == getEngagementParams(c, l.D)
        thinning == IsNum(c.material.chip_thinning)
                    /\ Lt(eng.ae, Mul(l.D, c.material.chip_thinning))
        fz == IF thinning THEN Mul(fz0, Sqrt(Div(l.D, eng.ae))) ELSE fz0
    IN  [l EXCEPT !.warnings =
             @ \o eng.pushed
               \o (IF thinning
                   THEN <<Warn("info", "Chip thinning compensation applied", <<>>)>>
                   ELSE <<>>)]
        @@ [fzRange |-> fzRange, fzNominal |-> fz0, ae |-> eng.ae, ap |-> eng.ap,
            thinning |-> thinning, fz |-> fz, vfNominal |-> Mul(Mul(l.rpm, l.z), fz0)]

\* chip load, engagement, chip thinning and the nominal feed rate
Chipload(c, l) ==
    LET fzRange == getChiploadRange(c, l.D)
        toolFactor == Or(Lookup(c.material.toolChiploadFactors, c.tool.type), I(1))
        fz0 == Mul(Mul(Div(Add(fzRange[1], fzRange[2]), I(2)), c.aggressiveness),
                   toolFactor)
        eng == getEngagementParams(c, l.D)
        thinning == IsNum(c.material.chip_thinning)
                    /\ Lt(eng.ae, Mul(l.D, c.material.chip_thinning))
        fz == IF thinning THEN Mul(fz0, Sqrt(Div(l.D, eng.ae))) ELSE fz0
    IN  [l EXCEPT !.warnings =
             @ \o eng.pushed
               \o (IF thinning
                   THEN <<Warn("info", "Chip thinning compensation applied", <<>>)>>
                   ELSE <<>>)]
        @@ [fzRange |-> fzRange, fzNominal |-> fz0, ae |-> eng.ae, ap |-> eng.ap,
            thinning |-> thinning, fz |-> fz, vfNominal |-> Mul(Mul(l.rpm, l.z), fz)]

\* the machine's feed ceiling
Feed(c, l) ==
    LET maxFeed == Min2(Min2(c.machine.max_feed_mm_min.x, c.machine.max_feed_mm_min.y),
                        c.machine.max_feed_mm_min.z)
        fed == LimitFeed(maxFeed, l.rpm, l.z, l.fz, l.vfNominal)
    IN  [l EXCEPT !.warnings = @ \o fed.pushed]
        @@ [maxFeed |-> maxFeed, vfClamped |-> fed.vf, fzClamped |-> fed.fzAdjusted]

\* material removal rate, required and available power, power limiting
Power(c, l) ==
    LET mrr0 == calculateMRR(c, l.D, l.ae, l.ap, l.vfClamped)
        powerRequired == calculateImprovedPower(c, l.ae, l.ap, l.vfClamped)
        powerAvailable == getSpindlePowerAtRPM(c, l.rpm)
        powered == LimitPower(l.vfClamped, l.fzClamped, mrr0, powerRequired,
                              powerAvailable)
    IN  [l EXCEPT !.warnings = @ \o powered.pushed]
        @@ [mrrNominal |-> mrr0, powerRequired |-> powerRequired,
            powerAvailable |-> powerAvailable, powerRatio |-> powered.powerRatio,
            vf |-> powered.vf, fzAdjusted |-> powered.fzAdjusted, mrr |-> powered.mrr]

\* Forces pushing the chip-load and tool-specific diagnostics before the
\* deflection entry
ForcesDiagnosticsFirst(c, l) ==
    LET cuttingForce == calculateCuttingForce(c, l.ae, l.ap, l.fzAdjusted)
        slender == c.tool.type \in {"endmill_flat", "endmill_ball", "tapered"}
        deflection == IF slender THEN calculateImprovedDeflection(c, cuttingForce)
                      ELSE I(0)
    IN  [l EXCEPT !.warnings =
             @ \o validateChipload(c, l.fzAdjusted, l.fzRange)
               \o addToolSpecificWarnings(c, l.D, l.ap, l.vf, cuttingForce)
               \o (IF slender THEN DeflectionWarnings(deflection) ELSE <<>>)]
        @@ [cuttingForce |-> cuttingForce, deflection |-> deflection]

\* Forces computing the deflection for every tool type
ForcesDeflectingEveryTool(c, l) ==
    LET cuttingForce == calculateCuttingForce(c, l.ae, l.ap, l.fzAdjusted)
        deflection == calculateImprovedDeflection(c, cuttingForce)
    IN  [l EXCEPT !.warnings =
             @ \o DeflectionWarnings(deflection)
               \o validateChipload(c, l.fzAdjusted, l.fzRange)
               \o addToolSpecificWarnings(c, l.D, l.ap, l.vf, cuttingForce)]
        @@ [cuttingForce |-> cuttingForce, deflection |-> deflection]

\* cutting force, deflection and the remaining diagnostics
Forces(c, l) ==
    LET cuttingForce == calculateCuttingForce(c, l.ae, l.ap, l.fzAdjusted)
        slender == c.tool.type \in {"endmill_flat", "endmill_ball", "tapered"}
        deflection == IF slender THEN calculateImprovedDeflection(c, cuttingForce)
                      ELSE I(0)
    IN  [l EXCEPT !.warnings =
             @ \o (IF slender THEN DeflectionWarnings(deflection) ELSE <<>>)
               \o validateChipload(c, l.fzAdjusted, l.fzRange)
               \o addToolSpecificWarnings(c, l.D, l.ap, l.vf, cuttingForce)]
        @@ [cuttingForce |-> cuttingForce, deflection |-> deflection]

\* Result reporting the required power of the feed left by power limiting
ResultPowerOfScaledFeed(c, l) ==
    LET vcActual == Div(Mul(Mul(PI, l.D), l.rpm), I(1000))
        sfmActual == Mul(vcActual, Q(328084, 100000))
    IN  [rpm |-> Round(l.rpm), feed_mm_min |-> Round(l.vf),
         fz_mm |-> ToFixed(l.fzAdjusted, 4), fz_actual_mm |-> ToFixed(l.fz, 4),
         ae_mm |-> ToFixed(l.ae, 2), ap_mm |-> ToFixed(l.ap, 2),
         doc_mm |-> ToFixed(l.ap, 2), mrr_mm3_min |-> Round(l.mrr),
         power_W |-> Round(calculateImprovedPower(c, l.ae, l.ap, l.vf)),
         power_available_W |-> Round(l.powerAvailable),
         force_N |-> Round(l.cuttingForce),
         deflection_mm |-> ToFixed(l.deflection, 4),
         vc_m_min |-> Round(vcActual), sfm |-> Round(sfmActual),
         warnings |-> l.warnings, toolType |-> c.tool.type,
         effectiveDiameter |-> ToFixed(l.D, 2),
         user_doc_override |-> c.userDOC # Null]

\* the record calculate() returns
Result(c, l) ==
    LET vcActual == Div(Mul(Mul(PI, l.D), l.rpm), I(1000))
        sfmActual == Mul(vcActual, Q(328084, 100000))
    IN  [rpm |-> Round(l.rpm), feed_mm_min |-> Round(l.vf),
         fz_mm |-> ToFixed(l.fzAdjusted, 4), fz_actual_mm |-> ToFixed(l.fz, 4),
         ae_mm |-> ToFixed(l.ae, 2), ap_mm |-> ToFixed(l.ap, 2),
         doc_mm |-> ToFixed(l.ap, 2), mrr_mm3_min |-> Round(l.mrr),
         power_W |-> Round(l.powerRequired),
         power_available_W |-> Round(l.powerAvailable),
         force_N |-> Round(l.cuttingForce),
         deflection_mm |-> ToFixed(l.deflection, 4),
         vc_m_min |-> Round(vcActual), sfm |-> Round(sfmActual),
         warnings |-> l.warnings, toolType |-> c.tool.type,
         effectiveDiameter |-> ToFixed(l.D, 2),
         user_doc_override |-> c.userDOC # Null]

\* calculate(): the values of its local variables when it ends, the
\* warnings list it leaves in this.warnings, and the record it returns.
\* Reading machine.max_feed_mm_min.x of a machine without feed ceilings
\* throws a TypeError; the locals assigned after that point stay undefined.
Thrown(l) == [status |-> "threw", locals |-> l, warnings |-> l.warnings]

Returning(c, l) ==
    [status |-> "returned", locals |-> l, warnings |-> l.warnings,
     result |-> Result(c, l)]

calculate(c) ==
    IF ~HasObject(c.machine.max_feed_mm_min)
    THEN Thrown(Chipload(c, Speeds(c)))
    ELSE Returning(c, Forces(c, Power(c, Feed(c, Chipload(c, Speeds(c))))))

-----------------------------------------------------------------------------
(* Rounded arithmetic.  A JavaScript number is a binary floating-point     *)
(* value and every * / + rounds its result to the nearest one.  The        *)
(* rationals above leave the rounding out; here a number is a pair         *)
(* <<m, e>> standing for m * 2^e with a significand m of SignificandBits   *)
(* bits (53 in the code), 0 being <<0, 0>>, and every operation rounds to  *)
(* nearest, ties to even.                                                  *)

SignificandBits == 10

RECURSIVE Pow2(_)
Pow2(k) == IF k = 0 THEN 1 ELSE 2 * Pow2(k - 1)

\* the number of bits of n > 0
RECURSIVE BitLength(_)
BitLength(n) == IF n = 0 THEN 0 ELSE 1 + BitLength(n \div 2)

\* n * 2^e rounded to the nearest number
FlRound(n, e) ==
    LET bits == BitLength(n)
        k == bits - SignificandBits
    IN  IF n = 0 THEN <<0, 0>>
        ELSE IF k <= 0 THEN <<n * Pow2(-k), e + k>>
        ELSE LET q == n \div Pow2(k)
                 r == n % Pow2(k)
                 half == Pow2(k - 1)
                 up == r > half \/ (r = half /\ q % 2 = 1)
                 m == IF up THEN q + 1 ELSE q
             IN  IF m = Pow2(SignificandBits) THEN <<m \div 2, e + k + 1>>
                 ELSE <<m, e + k>>

\* the nearest number to the decimal literal n / d
Fl(n, d) ==
    LET s == Pow2(SignificandBits + 2)
        q == (n * s) \div d
        sticky == IF (n * s) % d = 0 THEN 0 ELSE 1
    IN  FlRound(2 * q + sticky, -(SignificandBits + 3))

FlMul(a, b) == FlRound(a[1] * b[1], a[2] + b[2])

FlDiv(a, b) ==
    LET s == Pow2(SignificandBits + 2)
        q == (a[1] * s) \div b[1]
        sticky == IF (a[1] * s) % b[1] = 0 THEN 0 ELSE 1
    IN  FlRound(2 * q + sticky, a[2] - b[2] - (SignificandBits + 3))

\* a + b for a, b >= 0; an addend below the last bit of the other leaves it
FlAdd(a, b) ==
    LET hi == IF a[2] >= b[2] THEN a ELSE b
        lo == IF a[2] >= b[2] THEN b ELSE a
        d == hi[2] - lo[2]
    IN  IF lo[1] = 0 THEN hi
        ELSE IF hi[1] = 0 THEN lo
        ELSE IF d > SignificandBits + 1 THEN hi
        ELSE FlRound(hi[1] * Pow2(d) + lo[1], lo[2])

\* a < b for a, b >= 0
FlLt(a, b) ==
    IF b[1] = 0 THEN FALSE
    ELSE IF a[1] = 0 THEN TRUE
    ELSE a[2] < b[2] \/ (a[2] = b[2] /\ a[1] < b[1])

FlGt(a, b) == FlLt(b, a)
FlLe(a, b) == ~FlLt(b, a)

-----------------------------------------------------------------------------
(* The state machine                                                       *)

NoRun == [status |-> "none"]
NoProbe == [done |-> FALSE]

\* bounds of the requests
MaxAggressiveness == 2
MaxUserDOC == 2

Aggressivenesses == {Q(1, 2)} \cup {I(k) : k \in 1..MaxAggressiveness}
UserDOCs == {Null} \cup {I(3 * k) : k \in 1..MaxUserDOC}
RequestCutTypes == {"slot", "profile", "adaptive", "facing", "drilling", "plunge"}

Requests ==
    {NewCalculator(m, s, t, mat, ct, a, doc) :
        m \in Machines, s \in Spindles, t \in Tools, mat \in Materials,
        ct \in RequestCutTypes, a \in Aggressivenesses, doc \in UserDOCs}

Init ==
    /\ calc \in Requests
    /\ run = NoRun
    /\ probe = NoProbe

\* calculator.calculate()
Calculate ==
    /\ run' = calculate(calc)
    /\ calc' = [calc EXCEPT !.warnings = run'.warnings]
    /\ UNCHANGED probe

Next == Calculate

Spec == Init /\ [][Next]_vars

-----------------------------------------------------------------------------
(* The power balancer of calculate() in rounded arithmetic: the section     *)
(* "Power limiting" with calculateImprovedPower, applied to the values the  *)
(* earlier sections hand it.                                                *)

\* calculateImprovedPower, p holding the specific cutting energy of the
\* material, the power factor of the tool and the rigidity of the machine
calculateImprovedPowerRounded(p, ae, ap, vf) ==
    LET MRR_mm3_min == FlMul(FlMul(ae, ap), vf)
        cuttingPower0 == FlDiv(FlMul(MRR_mm3_min, p.specificEnergy), Fl(60, 1))
        cuttingPower1 == FlMul(cuttingPower0, p.toolFactor)
        cuttingPower == FlMul(cuttingPower1, p.K_rigidity)
        spindleLosses == FlMul(cuttingPower, Fl(15, 100))
    IN  FlAdd(cuttingPower, spindleLosses)

\* "Power limiting": the ratio applied and vf after it
LimitPowerRounded(vf, powerRequired, powerAvailable) ==
    IF FlGt(powerRequired, FlMul(powerAvailable, Fl(9, 10)))
    THEN LET powerRatio == FlDiv(FlMul(powerAvailable, Fl(85, 100)), powerRequired)
         IN  [limited |-> TRUE, powerRatio |-> powerRatio, vf |-> FlMul(vf, powerRatio)]
    ELSE [limited |-> FALSE, powerRatio |-> <<0, 0>>, vf |-> vf]

\* bound of the feed rates handed to the balancer, in steps of 500 mm/min
MaxFeedSteps == 4

\* values of the locals and catalog entries the balancer reads
BalancerInputs ==
    [specificEnergy : {Fl(5, 10), Fl(25, 10)},
     toolFactor : {Fl(1, 1), Fl(9, 10)},
     K_rigidity : {Fl(6, 10), Fl(1, 1), Fl(2, 1)},
     ae : {Fl(3, 1), Fl(6, 1)},
     ap : {Fl(3, 1), Fl(45, 10)},
     vf : {Fl(500 * k, 1) : k \in 1..MaxFeedSteps},
     powerAvailable : {Fl(10625, 10), Fl(1870, 1), Fl(1275, 1)}]

InitBalancer ==
    /\ calc = NoObject
    /\ run = NoRun
    /\ probe \in {[done |-> FALSE, in |-> i] : i \in BalancerInputs}

\* the balancer, and calculateImprovedPower again on the feed it leaves
BalancePower ==
    /\ ~probe.done
    /\ LET i == probe.in
           powerRequired == calculateImprovedPowerRounded(i, i.ae, i.ap, i.vf)
           powered == LimitPowerRounded(i.vf, powerRequired, i.powerAvailable)
       IN  probe' = [done |-> TRUE, in |-> i,
                     out |-> [powerRequired |-> powerRequired,
                              limited |-> powered.limited,
                              powerRatio |-> powered.powerRatio,
                              vf |-> powered.vf,
                              powerRescaled |->
                                  calculateImprovedPowerRounded(i, i.ae, i.ap,
                                                                powered.vf)]]
    /\ UNCHANGED <<calc, run>>

NextBalancer == BalancePower

SpecBalancer == InitBalancer /\ [][NextBalancer]_vars

-----------------------------------------------------------------------------
(* getSpindlePowerAtRPM called on its own, at speeds inside and outside the *)
(* range of the spindle                                                     *)

\* the speeds asked for: the multiples of 500 rpm up to MaxRpmSteps of them
MaxRpmSteps == 60

ProbedRpms == {I(500 * k) : k \in 0..MaxRpmSteps}

\* calculators for one request per catalog spindle
InitSpindle ==
    /\ calc \in {c \in Requests :
                    /\ c.machine.id = "printnc"
                    /\ c.material.id = "al_6061_t6"
                    /\ c.tool.type = "endmill_flat" /\ c.tool.diameter_mm = I(6)
                    /\ c.cutType = "slot"
                    /\ c.aggressiveness = I(1)
                    /\ c.userDOC = Null}
    /\ run = NoRun
    /\ probe = NoProbe

\* calculator.getSpindlePowerAtRPM(rpm)
GetSpindlePowerAtRPM ==
    /\ \E rpm \in ProbedRpms :
           probe' = [done |-> TRUE, in |-> rpm, out |-> getSpindlePowerAtRPM(calc, rpm)]
    /\ UNCHANGED <<calc, run>>

NextSpindle == GetSpindlePowerAtRPM

SpecSpindle == InitSpindle /\ [][NextSpindle]_vars

-----------------------------------------------------------------------------
(* getChiploadRange() on the tables a material can carry: every non-empty
   sequence of up to MaxTableLen buckets, in any order of max_d_mm and with
   repeated sizes; the range of bucket i is (i/100, 2i/100), so the range
   returned names the bucket it came from. *)

MaxTableLen == 3
MaxProbedDiameter == 12

BucketSizes == {3, 6, 10}

ChiploadTables ==
    UNION {[1..n -> BucketSizes] : n \in 1..MaxTableLen}

TableOf(sizes) ==
    [i \in DOMAIN sizes |-> Bucket(sizes[i], Q(i, 100), Q(2 * i, 100))]

ProbedDiameters == {Q(k, 2) : k \in 1..(2 * MaxProbedDiameter)}

InitChipload ==
    /\ calc \in {[material |-> [fz_mm_per_tooth_by_diameter |-> TableOf(sizes)]] :
                    sizes \in ChiploadTables}
    /\ run = NoRun
    /\ probe = NoProbe

\* calculator.getChiploadRange(d)
GetChiploadRange ==
    /\ \E d \in ProbedDiameters :
           probe' = [done |-> TRUE, in |-> d, out |-> getChiploadRange(calc, d)]
    /\ UNCHANGED <<calc, run>>

NextChipload == GetChiploadRange

SpecChipload == InitChipload /\ [][NextChipload]_vars

-----------------------------------------------------------------------------
(* The deflection diagnostic of calculate() for the deflections
   calculateImprovedDeflection can return to it: every multiple of 0.001 mm
   up to MaxProbedDeflection of them, the two thresholds among them. *)

MaxProbedDeflection == 80

ProbedDeflections == {Q(k, 1000) : k \in 0..MaxProbedDeflection}

\* calculators for one request per tool of the three slender types
InitDeflection ==
    /\ calc \in {c \in Requests :
                    /\ c.machine.id = "printnc"
                    /\ c.spindle.id = "water_2_2kw"
                    /\ c.material.id = "al_6061_t6"
                    /\ c.tool.type \in {"endmill_flat", "endmill_ball", "tapered"}
                    /\ c.cutType = "slot"
                    /\ c.aggressiveness = I(1)
                    /\ c.userDOC = Null}
    /\ run = NoRun
    /\ probe = NoProbe

\* the branch of calculate() that follows calculateImprovedDeflection
ReportDeflection ==
    /\ \E deflection \in ProbedDeflections :
           probe' = [done |-> TRUE, in |-> deflection,
                     out |-> DeflectionWarnings(deflection)]
    /\ UNCHANGED <<calc, run>>

NextDeflection == ReportDeflection

SpecDeflection == InitDeflection /\ [][NextDeflection]_vars

-----------------------------------------------------------------------------
(* calculateImprovedDeflection() for one cutting force and one shank at two
   stickouts: the multiples of 5 mm up to MaxStickoutSteps of them, 0 mm
   among them, and the forces in steps of 10 N up to MaxForceSteps. *)

MaxStickoutSteps == 6
MaxForceSteps == 3

ProbedStickouts == {I(5 * k) : k \in 0..MaxStickoutSteps}

ProbedForces == {I(10 * k) : k \in 1..MaxForceSteps}

\* the calculator with the stickout of its tool set
WithStickout(c, stickout) == [c EXCEPT !.tool.stickout_mm = stickout]

\* calculateImprovedDeflection(force) on two calculators that differ in
\* tool.stickout_mm only
CompareStickouts ==
    /\ \E force \in ProbedForces, shorter \in ProbedStickouts, longer \in ProbedStickouts :
           /\ Lt(shorter, longer)
           /\ probe' = [done |-> TRUE,
                        in |-> [force |-> force, shorter |-> shorter, longer |-> longer],
                        out |-> [shorter |-> calculateImprovedDeflection(
                                                 WithStickout(calc, shorter), force),
                                 longer |-> calculateImprovedDeflection(
                                                WithStickout(calc, longer), force)]]
    /\ UNCHANGED <<calc, run>>

NextStickout == CompareStickouts

SpecStickout == InitDeflection /\ [][NextStickout]_vars

-----------------------------------------------------------------------------
(* Repeated calls on several calculators.  Arrays are objects: the heap is
   the sequence of the arrays created so far, this.warnings and the warnings
   field of a returned result are positions in it, so that a result and its
   calculator can share one array.  calc[k] is calculator k, run.returned
   lists the calls made so far, each with the result as its caller received
   it (a reference) and a copy of what that result held when it was
   returned.  A call runs to its end before the next one starts. *)

NumCalculators == 2
MaxCalls == 3

\* the requests the calculators are built from: some throw, the others
\* return between one and four warnings
CalledRequests ==
    {c \in Requests :
        /\ c.machine.id \in {"light_hobby", "custom"}
        /\ c.spindle.id = "dewalt_611"
        /\ c.material.id = "steel_1018"
        /\ c.tool.type = "endmill_flat" /\ c.tool.diameter_mm = I(6)
        /\ c.cutType \in {"slot", "profile"}
        /\ c.aggressiveness = I(2)
        /\ c.userDOC \in {Null, I(6)}}

\* new SpeedsFeedsCalculator(...) for calculator k: its warnings array is a
\* new one
InitCalls ==
    /\ calc \in {[k \in 1..NumCalculators |-> [request[k] EXCEPT !.warnings = k]] :
                    request \in [1..NumCalculators -> CalledRequests]}
    /\ run = [heap |-> [k \in 1..NumCalculators |-> <<>>], returned |-> <<>>]
    /\ probe = NoProbe

\* calculate() going on with the array the calculator already has
keepWarnings(heap, ref) == [heap |-> heap, ref |-> ref]

\* this.warnings = [] at the start of calculate()
resetWarnings(heap, ref) == [heap |-> Append(heap, <<>>), ref |-> Len(heap) + 1]

\* what the caller of calculate() holds when the call ends: the result with
\* its warnings array by reference, and a copy of its content at that moment
Received(k, ref, out, heap) ==
    IF out.status = "returned"
    THEN [calculator |-> k, status |-> out.status,
          result |-> [out.result EXCEPT !.warnings = ref],
          asReturned |-> [out.result EXCEPT !.warnings = heap[ref]]]
    ELSE [calculator |-> k, status |-> out.status,
          result |-> NoObject, asReturned |-> NoObject]

\* the pushes of a call go to the array this.warnings refers to
Pushed(reset, pushed) ==
    [reset.heap EXCEPT ![reset.ref] = @ \o pushed]

\* calculator k's calculate(): this.warnings is rebound, the pushes go to
\* the array it refers to, and the result returned holds that same array;
\* probe is the call as it ended
CalculateOn(k) ==
    /\ Len(run.returned) < MaxCalls
    /\ probe' = calculate(calc[k])
    /\ calc' = [calc EXCEPT
                   ![k].warnings = resetWarnings(run.heap, calc[k].warnings).ref]
    /\ run' = [heap |-> Pushed(resetWarnings(run.heap, calc[k].warnings),
                               probe'.warnings),
               returned |->
                   Append(run.returned,
                          Received(k, calc'[k].warnings, probe',
                                   Pushed(resetWarnings(run.heap, calc[k].warnings),
                                          probe'.warnings)))]

NextCalls == \E k \in 1..NumCalculators : CalculateOn(k)

SpecCalls == InitCalls /\ [][NextCalls]_vars

-----------------------------------------------------------------------------
(* Input validation and the application's calculateResults().  Only the
   error lists decide isValid; of the advisory notes those of
   validateMachine are kept.  probe is the application state the handler
   reads (the selections), run what it stores (the validation results and
   the result list), calc the calls of calculate() it made. *)

isValidNumber(value) == IsNum(value)

\* validateMachine(machine)
validateMachine(machine) ==
    IF ~HasObject(machine)
    THEN [errors |-> <<"Machine configuration is required">>, warnings |-> <<>>]
    ELSE
    LET feeds == machine.max_feed_mm_min
        K == machine.K_rigidity
        Invalid(v) == ~isValidNumber(v) \/ Le(v, I(0))
    IN  [errors |->
             (IF HasObject(feeds) /\ Invalid(feeds.x)
              THEN <<"X-axis maximum feed rate must be positive">> ELSE <<>>)
             \o (IF HasObject(feeds) /\ Invalid(feeds.y)
                 THEN <<"Y-axis maximum feed rate must be positive">> ELSE <<>>)
             \o (IF HasObject(feeds) /\ Invalid(feeds.z)
                 THEN <<"Z-axis maximum feed rate must be positive">> ELSE <<>>)
             \o (IF K # Undefined /\ Invalid(K)
                 THEN <<"Machine rigidity factor must be positive">> ELSE <<>>),
         warnings |->
             (IF HasObject(feeds) /\ ~Invalid(feeds.x) /\ Lt(feeds.x, I(100))
              THEN <<"X-axis feed rate seems very low for modern machines">>
              ELSE IF HasObject(feeds) /\ ~Invalid(feeds.x) /\ Gt(feeds.x, I(50000))
              THEN <<"X-axis feed rate seems very high - verify specifications">>
              ELSE <<>>)
             \o (IF K # Undefined /\ ~Invalid(K) /\ Lt(K, Q(5, 10))
                 THEN <<"Very low rigidity factor - expect poor surface finish">>
                 ELSE IF K # Undefined /\ ~Invalid(K) /\ Gt(K, I(2))
                 THEN <<"Very high rigidity factor - verify machine specifications">>
                 ELSE <<>>)]

\* the errors of validateSpindle(spindle)
validateSpindle(spindle) ==
    IF ~HasObject(spindle) THEN <<"Spindle configuration is required">>
    ELSE
    (IF ~isValidNumber(spindle.rated_power_kW) \/ Le(spindle.rated_power_kW, I(0))
     THEN <<"Spindle power rating must be positive">> ELSE <<>>)
    \o (IF ~isValidNumber(spindle.rpm_min) \/ Le(spindle.rpm_min, I(0))
        THEN <<"Minimum RPM must be positive">> ELSE <<>>)
    \o (IF ~isValidNumber(spindle.rpm_max) \/ Le(spindle.rpm_max, I(0))
        THEN <<"Maximum RPM must be positive">> ELSE <<>>)
    \o (IF isValidNumber(spindle.rpm_min) /\ isValidNumber(spindle.rpm_max)
           /\ Le(spindle.rpm_max, spindle.rpm_min)
        THEN <<"Maximum RPM must be greater than minimum RPM">> ELSE <<>>)
    \o (IF isValidNumber(spindle.base_rpm) /\ spindle.base_rpm # I(0)
           /\ (Lt(spindle.base_rpm, spindle.rpm_min)
               \/ Gt(spindle.base_rpm, spindle.rpm_max))
        THEN <<"Base RPM must be within min/max RPM range">> ELSE <<>>)

\* the errors of validateTool(tool); the aspect ratio above 10 is tested
\* only when it is not above 6
validateTool(tool) ==
    IF ~HasObject(tool) THEN <<"Tool configuration is required">>
    ELSE
    (IF tool.type = "" THEN <<"Tool type is required">> ELSE <<>>)
    \o (IF ~isValidNumber(tool.diameter_mm) \/ Le(tool.diameter_mm, I(0))
        THEN <<"Tool diameter must be positive">> ELSE <<>>)
    \o (IF tool.flutes # Undefined
           /\ (~isValidNumber(tool.flutes) \/ Lt(tool.flutes, I(1))
               \/ Gt(tool.flutes, I(20)))
        THEN <<"Number of flutes must be between 1 and 20">> ELSE <<>>)
    \o (IF tool.stickout_mm = Undefined THEN <<>>
        ELSE IF ~isValidNumber(tool.stickout_mm) \/ Le(tool.stickout_mm, I(0))
        THEN <<"Tool stickout must be positive">>
        ELSE IF ~isValidNumber(tool.diameter_mm) THEN <<>>
        ELSE IF Gt(tool.stickout_mm, Mul(I(6), tool.diameter_mm)) THEN <<>>
        ELSE IF Gt(tool.stickout_mm, Mul(I(10), tool.diameter_mm))
        THEN <<"Extreme aspect ratio - likely to break">>
        ELSE <<>>)

\* the errors of validateMaterial(material)
validateMaterial(material) ==
    IF ~HasObject(material) THEN <<"Material selection is required">>
    ELSE
    LET min == material.vc_range[1]
        max == material.vc_range[2]
    IN  IF ~isValidNumber(min) \/ ~isValidNumber(max)
           \/ Le(min, I(0)) \/ Le(max, I(0))
        THEN <<"Material surface speed range must be positive values">>
        ELSE IF Le(max, min)
        THEN <<"Maximum surface speed must be greater than minimum">>
        ELSE <<>>

\* validateCutParameters without the test doc_mm <= 0
validateCutParametersAnySign(cutParams) ==
    (IF cutParams.doc_mm # Undefined /\ ~isValidNumber(cutParams.doc_mm)
     THEN <<"Depth of cut must be positive">> ELSE <<>>)
    \o (IF cutParams.aggressiveness # Undefined
           /\ (~isValidNumber(cutParams.aggressiveness)
               \/ Le(cutParams.aggressiveness, I(0)))
        THEN <<"Aggressiveness factor must be positive">> ELSE <<>>)

\* the errors of validateCutParameters(cutParams): doc_mm is tested unless
\* it is undefined, so a null doc_mm is an error
validateCutParameters(cutParams) ==
    (IF cutParams.doc_mm # Undefined
        /\ (~isValidNumber(cutParams.doc_mm) \/ Le(cutParams.doc_mm, I(0)))
     THEN <<"Depth of cut must be positive">> ELSE <<>>)
    \o (IF cutParams.aggressiveness # Undefined
           /\ (~isValidNumber(cutParams.aggressiveness)
               \/ Le(cutParams.aggressiveness, I(0)))
        THEN <<"Aggressiveness factor must be positive">> ELSE <<>>)

\* the errors of validateCombinations(inputs); the depth ratio above 3 is
\* tested only when it is not above 2
validateCombinations(inputs) ==
    IF ~HasObject(inputs.tool) \/ ~HasObject(inputs.material)
       \/ ~HasObject(inputs.spindle)
    THEN <<>>
    ELSE IF ~isValidNumber(inputs.cutParams.doc_mm)
            \/ inputs.cutParams.doc_mm = I(0)
            \/ ~isValidNumber(inputs.tool.diameter_mm)
            \/ inputs.tool.diameter_mm = I(0)
    THEN <<>>
    ELSE IF Gt(inputs.cutParams.doc_mm, Mul(I(2), inputs.tool.diameter_mm))
    THEN <<>>
    ELSE IF Gt(inputs.cutParams.doc_mm, Mul(I(3), inputs.tool.diameter_mm))
    THEN <<"Extreme depth of cut - likely to break tool">>
    ELSE <<>>

\* the note validateTool(tool) pushes for the aspect ratio of a tool that
\* passes the tests of diameter and stickout
aspectRatioWarnings(tool) ==
    IF tool.stickout_mm = Undefined \/ ~isValidNumber(tool.stickout_mm)
       \/ Le(tool.stickout_mm, I(0)) \/ ~isValidNumber(tool.diameter_mm)
    THEN <<>>
    ELSE IF Gt(tool.stickout_mm, Mul(I(6), tool.diameter_mm))
    THEN <<"High aspect ratio - expect high deflection">>
    ELSE <<>>

\* the note validateCombinations(inputs) pushes for the depth ratio
docRatioWarnings(inputs) ==
    IF ~HasObject(inputs.tool) \/ ~HasObject(inputs.material)
       \/ ~HasObject(inputs.spindle)
    THEN <<>>
    ELSE IF ~isValidNumber(inputs.cutParams.doc_mm)
            \/ inputs.cutParams.doc_mm = I(0)
            \/ ~isValidNumber(inputs.tool.diameter_mm)
            \/ inputs.tool.diameter_mm = I(0)
    THEN <<>>
    ELSE IF Gt(inputs.cutParams.doc_mm, Mul(I(2), inputs.tool.diameter_mm))
    THEN <<"Deep cut relative to tool diameter - expect high forces">>
    ELSE <<>>

\* validateCalculationInputs(inputs)
validateCalculationInputs(inputs) ==
    LET machineValidation == validateMachine(inputs.machine)
        errors == machineValidation.errors
                  \o validateSpindle(inputs.spindle)
                  \o validateTool(inputs.tool)
                  \o validateMaterial(inputs.material)
                  \o validateCutParameters(inputs.cutParams)
                  \o validateCombinations(inputs)
    IN  [isValid |-> errors = <<>>, errors |-> errors,
         warnings |-> machineValidation.warnings]

\* MACHINE_PRESETS[id] || MACHINE_PRESETS.printnc
Preset(id) ==
    IF \E m \in Machines : m.id = id
    THEN CHOOSE m \in Machines : m.id = id
    ELSE CHOOSE m \in Machines : m.id = "printnc"

\* getEffectiveMachine()
getEffectiveMachine(app) ==
    IF app.selectedMachine = "custom" /\ HasObject(app.customMachineConfig)
    THEN app.customMachineConfig
    ELSE Preset(app.selectedMachine)

\* the machine configurations the custom editor can hold: none, one with
\* feed ceilings, one with an X ceiling of 0, one without feed ceilings
CustomMachineConfigs ==
    {NoObject,
     Machine("custom", I(1), I(1), I(1), I(1), Feeds(6000, 6000, 2000)),
     Machine("custom", I(1), I(1), I(1), I(1), Feeds(0, 6000, 2000)),
     Machine("custom", Q(6, 10), I(1), I(1), I(1), NoObject)}

\* the states of the application in which calculateResults() is called
AppStates ==
    [selectedMachine : {m.id : m \in Machines} \cup {"unlisted"},
     customMachineConfig : CustomMachineConfigs,
     spindleConfig : Spindles,
     selectedTool : {t \in Tools : t.type \in {"endmill_flat", "vbit", "drill"}
                                   /\ t.diameter_mm # I(10)},
     selectedMaterials : {<<>>} \cup {<<a>> : a \in Materials}
                         \cup {<<a, b>> : a \in Materials, b \in Materials}
                         \cup {<<a, NoObject>> : a \in Materials}
                         \cup {<<NoObject, a>> : a \in Materials},
     selectedCutTypes : {<<"slot">>, <<"profile", "slot">>},
     aggressiveness : {I(1)},
     customDOC : {[enabled |-> FALSE, value |-> I(1)],
                  [enabled |-> TRUE, value |-> I(3)],
                  [enabled |-> TRUE, value |-> I(0)]}]

InitApp ==
    /\ calc = NoObject
    /\ run = NoRun
    /\ probe \in AppStates

\* the depth override handed on: customDOC.enabled ? customDOC.value : null
DocOf(app) == IF app.customDOC.enabled THEN app.customDOC.value ELSE Null

\* the materials the outer loop does not skip: a key that MATERIALS does
\* not list gives undefined and the loop continues with the next key
ExistingMaterials(app) == SelectSeq(app.selectedMaterials, HasObject)

\* the number of passes of the inner loop
Combinations(app) == Len(ExistingMaterials(app)) * Len(app.selectedCutTypes)

\* the calculator of the i-th pass with the loop over cut types outermost
CalculatorOfCutTypeMajor(app, i) ==
    LET n == Len(ExistingMaterials(app))
    IN  NewCalculator(getEffectiveMachine(app), app.spindleConfig, app.selectedTool,
                      ExistingMaterials(app)[((i - 1) % n) + 1],
                      app.selectedCutTypes[((i - 1) \div n) + 1],
                      app.aggressiveness, DocOf(app))

\* the calculator of the i-th pass of the loops over materials and cut types
CalculatorOf(app, i) ==
    LET n == Len(app.selectedCutTypes)
    IN  NewCalculator(getEffectiveMachine(app), app.spindleConfig, app.selectedTool,
                      ExistingMaterials(app)[((i - 1) \div n) + 1],
                      app.selectedCutTypes[((i - 1) % n) + 1],
                      app.aggressiveness, DocOf(app))

\* the inputs handed to validateCalculationInputs
InputsOf(app) ==
    [machine |-> getEffectiveMachine(app), spindle |-> app.spindleConfig,
     tool |-> app.selectedTool,
     material |-> IF Len(app.selectedMaterials) > 0
                  THEN app.selectedMaterials[1] ELSE NoObject,
     cutParams |-> [doc_mm |-> DocOf(app), aggressiveness |-> app.aggressiveness]]

\* arithmetic on values that may be undefined or NaN: the result is NaN
\* unless both operands are numbers, and a comparison with NaN is false
NumMul(a, b) == IF IsNum(a) /\ IsNum(b) THEN Mul(a, b) ELSE NaN

NumDiv(a, b) == IF IsNum(a) /\ IsNum(b) THEN Div(a, b) ELSE NaN

NumAdd(a, b) == IF IsNum(a) /\ IsNum(b) THEN Add(a, b) ELSE NaN

NumLe(a, b) == IsNum(a) /\ IsNum(b) /\ Le(a, b)

NumGt(a, b) == IsNum(a) /\ IsNum(b) /\ Gt(a, b)

\* Math.pow(x, 1.5) of x >= 0 cut to 2 decimals
PowThreeHalves(x) == Mul(Truncate(x, 2), Sqrt(Truncate(x, 2)))

\* power.js getSpecificCuttingEnergy(material)
power_getSpecificCuttingEnergy(material) ==
    IF IsNum(material.specific_cutting_energy_J_mm3)
       /\ material.specific_cutting_energy_J_mm3 # I(0)
    THEN material.specific_cutting_energy_J_mm3
    ELSE Or(Lookup([aluminum |-> Q(7, 10), steel |-> Q(25, 10), stainless |-> I(3),
                    titanium |-> I(4), brass |-> Q(5, 10), copper |-> Q(4, 10),
                    plastic |-> Q(2, 10)],
                   material.category),
            I(1))

\* power.js getToolPowerFactor(tool, cutType)
power_getToolPowerFactor(tool, cutType) ==
    Mul(Or(Lookup([endmill_flat |-> I(1), endmill_ball |-> Q(11, 10),
                   chamfer |-> Q(9, 10), vbit |-> Q(8, 10), facemill |-> Q(13, 10),
                   drill |-> Q(7, 10), threadmill |-> Q(6, 10), tapered |-> Q(105, 100),
                   boring |-> Q(8, 10), slitting |-> Q(14, 10)], tool.type), I(1)),
        Or(Lookup([slot |-> Q(12, 10), profile |-> I(1), adaptive |-> Q(8, 10),
                   facing |-> Q(11, 10), plunge |-> Q(15, 10), drilling |-> I(1),
                   chamfer |-> Q(9, 10), vcarve |-> Q(7, 10)], cutType), I(1)))

\* power.js getToolEfficiency(tool)
getToolEfficiency(tool) ==
    LET coating == IF "coating" \in DOMAIN tool THEN tool.coating ELSE ""
        baseEfficiency ==
            CASE coating = "tialn" -> Q(85, 100)
              [] coating = "alcrn" -> Q(84, 100)
              [] coating = "ticn" -> Q(83, 100)
              [] coating = "tin" -> Q(82, 100)
              [] coating = "diamond_like" -> Q(87, 100)
              [] coating = "uncoated" -> Q(75, 100)
              [] OTHER -> Q(8, 10)
    IN  CASE tool.type = "endmill_ball" -> Mul(baseEfficiency, Q(9, 10))
          [] tool.type = "vbit" -> Mul(baseEfficiency, Q(85, 100))
          [] OTHER -> baseEfficiency

\* power.js calculateSpindleLosses(rpm, spindle)
calculateSpindleLosses(rpm, spindle) ==
    LET baseLosses == Mul(Mul(spindle.rated_power_kW, I(1000)), Q(5, 100))
    IN  NumAdd(baseLosses,
               NumMul(Mul(baseLosses, Q(3, 10)),
                      IF IsNum(rpm) THEN PowThreeHalves(Div(rpm, spindle.base_rpm))
                      ELSE NaN))

\* power.js calculateCuttingPower(params)
calculateCuttingPower(params) ==
    LET mrr == NumMul(NumMul(params.woc, params.doc), params.feedRate)
        specificEnergy == power_getSpecificCuttingEnergy(params.material)
        baseCuttingPower == NumDiv(NumMul(mrr, specificEnergy), I(60))
        netCuttingPower ==
            NumDiv(NumMul(NumMul(baseCuttingPower,
                                 power_getToolPowerFactor(params.tool, params.cutType)),
                          Or(params.machine.K_rigidity, I(1))),
                   getToolEfficiency(params.tool))
        spindleLosses == calculateSpindleLosses(params.rpm, params.spindle)
        totalSpindlePower == NumAdd(netCuttingPower, spindleLosses)
    IN  [mrr_mm3_min |-> mrr,
         net_cutting_power_W |-> netCuttingPower,
         spindle_losses_W |-> spindleLosses,
         total_spindle_power_W |-> totalSpindlePower,
         total_motor_power_W |-> NumDiv(totalSpindlePower, Q(9, 10)),
         specific_energy_J_mm3 |-> specificEnergy,
         power_efficiency |-> Q(9, 10)]

\* deflection.js getToolModulus(material), in GPa
getToolModulus(material) ==
    Lookup([carbide |-> I(600), hss |-> I(210), cermet |-> I(450),
            ceramic |-> I(380), diamond |-> I(1000), cbn |-> I(700)], material)

\* deflection.js analyzeDeflection(deflection, tool)
analyzeDeflection(deflection, tool) ==
    LET percent == NumMul(NumDiv(deflection, Or(tool.diameter_mm, I(6))), I(100))
        status == IF NumLe(deflection, Q(5, 1000)) THEN "excellent"
                  ELSE IF NumLe(deflection, Q(2, 100)) THEN "good"
                  ELSE IF NumLe(deflection, Q(5, 100)) THEN "acceptable"
                  ELSE "excessive"
    IN  [status |-> status,
         severity |-> CASE status = "acceptable" -> "warning"
                        [] status = "excessive" -> "danger"
                        [] OTHER -> "info",
         deflection_percent_of_diameter |-> percent,
         recommendations |->
             (CASE status = "acceptable" ->
                       <<"Consider reducing cutting parameters for better finish">>
                [] status = "excessive" ->
                       <<"Reduce cutting forces", "Use shorter/larger diameter tool",
                         "Improve tool holder rigidity">>
                [] OTHER -> <<>>)
             \o (IF NumGt(percent, I(1)) THEN <<"Deflection > 1% of tool diameter">>
                 ELSE <<>>)]

\* deflection.js calculateToolDeflection(params), holderType 'collet'
calculateToolDeflection(params) ==
    LET diameter == Or(params.tool.diameter_mm, I(6))
        length == Or(params.stickout, Or(params.tool.stickout_mm, I(25)))
        E == Or(getToolModulus(params.tool.material), I(600))
        force == params.cuttingForce
        \* calculateBendingDeflection: F L^3 / (3 E 1000 (pi d^4 / 64))
        bending ==
            NumDiv(NumMul(force, Mul(length, Mul(length, length))),
                   Mul(Mul(I(3), Mul(E, I(1000))),
                       Div(Mul(PI, Mul(Mul(diameter, diameter), Mul(diameter, diameter))),
                           I(64))))
        \* calculateShearDeflection: 1.33 F L / ((E / 2.6) 1000 (pi d^2 / 4))
        shear ==
            NumDiv(NumMul(NumMul(Q(133, 100), force), length),
                   Mul(Mul(Div(E, Q(26, 10)), I(1000)),
                       Div(Mul(PI, Mul(diameter, diameter)), I(4))))
        \* calculateHolderCompliance: F x 0.001
        holder == NumMul(force, Q(1, 1000))
        total == NumAdd(NumAdd(bending, shear), holder)
    IN  [total_deflection_mm |-> total,
         bending_deflection_mm |-> bending,
         shear_deflection_mm |-> shear,
         holder_compliance_mm |-> holder,
         deflection_analysis |-> analyzeDeflection(total, params.tool),
         tool_geometry |-> [diameter_mm |-> diameter, length_mm |-> length,
                            modulus_GPa |-> E]]

\* the fields the catch block and the combined result share
EntryLabels(app, c) ==
    [material |-> c.material.id, materialKey |-> c.material.id,
     cutType |-> c.cutType, toolType |-> app.selectedTool.type,
     tool |-> app.selectedTool]

\* the combined result {...baseResult, ...powerResult, ...deflectionResult,
\* material, ..., power_utilization_percent}: a later spread overwrites the
\* fields of an earlier one, and a field baseResult does not define reads
\* as undefined
combinedResult(app, c, baseResult) ==
    LET powerResult ==
            calculateCuttingPower(
                [material |-> c.material, tool |-> app.selectedTool,
                 cutType |-> c.cutType, rpm |-> I(baseResult.rpm),
                 feedRate |-> Lookup(baseResult, "feed_rate_mm_min"),
                 doc |-> Lookup(baseResult, "doc_mm"),
                 woc |-> Lookup(baseResult, "woc_mm"),
                 machine |-> c.machine, spindle |-> app.spindleConfig])
        deflectionResult ==
            calculateToolDeflection(
                [tool |-> app.selectedTool,
                 cuttingForce |-> Lookup(baseResult, "cutting_force_N"),
                 stickout |-> app.selectedTool.stickout_mm])
    IN  ([power_utilization_percent |->
              NumMul(NumDiv(powerResult.total_motor_power_W,
                            Mul(app.spindleConfig.rated_power_kW, I(1000))),
                     I(100))]
         @@ EntryLabels(app, c))
        @@ deflectionResult @@ powerResult @@ baseResult

\* the entry pushed for a call of calculate(): the combined result, or the
\* error entry of the catch block when it threw
EntryOf(app, c, out) ==
    IF out.status = "returned"
    THEN combinedResult(app, c, out.result)
    ELSE [error |-> "TypeError",
          warnings |-> <<Warn("danger", "Calculation failed", <<"TypeError">>)>>]
         @@ EntryLabels(app, c)

\* an entry of the catch block
Failed(entry) == "error" \in DOMAIN entry

\* calculateResults(): calc' is the calls of calculate() it made, one per
\* calculator it constructed, in the order of the loops
calculateResults ==
    /\ calc' = IF validateCalculationInputs(InputsOf(probe)).isValid
               THEN [i \in 1..Combinations(probe) |->
                        calculate(CalculatorOf(probe, i))]
               ELSE <<>>
    /\ run' = [status |-> IF validateCalculationInputs(InputsOf(probe)).isValid
                          THEN "calculated" ELSE "rejected",
               validation |-> validateCalculationInputs(InputsOf(probe)),
               machine |-> getEffectiveMachine(probe),
               cutParams |-> InputsOf(probe).cutParams,
               constructed |-> Len(calc'),
               calculators |-> [i \in DOMAIN calc' |-> CalculatorOf(probe, i)],
               results |-> [i \in DOMAIN calc' |->
                               EntryOf(probe, CalculatorOf(probe, i), calc'[i])]]
    /\ UNCHANGED probe

\* the one pass of calculateResults() over a state of the application
CalculateResults ==
    /\ run.status = "none"
    /\ calculateResults

NextApp == CalculateResults

SpecApp == InitApp /\ [][NextApp]_vars

-----------------------------------------------------------------------------
(* The depth-of-cut override of the application: the toggle and the input
   of DOCInputComponent, the import of a settings file and the load of the
   auto-saved settings write customDOC, and calculateResults() reads it.
   probe is the application state, with mounted telling whether the mount
   effect has run; a text is a sequence of characters; a value that is not
   a number (NaN, a string of a settings file) is NaN.                     *)

IsDigit(ch) == ch \in {"0", "1", "2", "3", "4", "5", "6", "7", "8", "9"}

DigitValue(ch) ==
    CASE ch = "0" -> 0 [] ch = "1" -> 1 [] ch = "2" -> 2 [] ch = "3" -> 3
      [] ch = "4" -> 4 [] ch = "5" -> 5 [] ch = "6" -> 6 [] ch = "7" -> 7
      [] ch = "8" -> 8 [] ch = "9" -> 9

\* the number of digits of text starting at position from
RECURSIVE LeadingDigits(_, _)
LeadingDigits(text, from) ==
    IF from <= Len(text) /\ IsDigit(text[from])
    THEN 1 + LeadingDigits(text, from + 1) ELSE 0

\* the value of the n digits of text starting at position from
RECURSIVE DigitsValue(_, _, _)
DigitsValue(text, from, n) ==
    IF n = 0 THEN 0
    ELSE 10 * DigitsValue(text, from, n - 1) + DigitValue(text[from + n - 1])

RECURSIVE PowerOfTen(_)
PowerOfTen(n) == IF n = 0 THEN 1 ELSE 10 * PowerOfTen(n - 1)

\* parseFloat(text): the longest prefix of the form sign, digits, point,
\* digits; NaN when it has no digit
parseFloat(text) ==
    LET signed == Len(text) > 0 /\ text[1] \in {"-", "+"}
        sign == IF Len(text) > 0 /\ text[1] = "-" THEN -1 ELSE 1
        start == IF signed THEN 2 ELSE 1
        n == LeadingDigits(text, start)
        point == start + n
        m == IF point <= Len(text) /\ text[point] = "."
             THEN LeadingDigits(text, point + 1) ELSE 0
    IN  IF n = 0 /\ m = 0 THEN NaN
        ELSE Q(sign * (DigitsValue(text, start, n) * PowerOfTen(m)
                       + DigitsValue(text, point + 1, m)),
               PowerOfTen(m))

\* the texts typed into the depth input
DOCTexts ==
    {<<>>, <<"0">>, <<"3">>, <<"-", "3">>, <<"1", ".", "5">>, <<"0", ".", "0">>,
     <<"a">>, <<"3", "m", "m">>, <<".">>}

\* the customDOC objects a settings file or the auto-save can hold
StoredDOCs ==
    [enabled : BOOLEAN, value : {I(3), I(0), I(-3), Null, Undefined, NaN}]

\* the state of the application after construction (useState initial values)
DefaultApp ==
    [selectedMachine |-> "printnc", customMachineConfig |-> NoObject,
     spindleConfig |-> CHOOSE s \in Spindles : s.id = "water_2_2kw",
     selectedTool |-> CHOOSE t \in Tools : t.type = "endmill_flat"
                                           /\ t.diameter_mm = I(6),
     selectedMaterials |-> <<CHOOSE a \in Materials : a.id = "al_6061_t6">>,
     selectedCutTypes |-> <<"profile">>,
     aggressiveness |-> I(1),
     customDOC |-> [enabled |-> FALSE, value |-> I(1)],
     mounted |-> FALSE]

InitDOC ==
    /\ calc = NoObject
    /\ run = NoRun
    /\ probe = DefaultApp

\* onDOCChange(value): setCustomDOC({enabled: value !== null, value: value || 1.0})
onDOCChange(app, value) ==
    [app EXCEPT !.customDOC = [enabled |-> value # Null, value |-> Or(value, I(1))]]

\* useCustomDOC after the effect on userDOC
useCustomDOC(app) == DocOf(app) # Null /\ DocOf(app) # Undefined

\* the mount effect: loadAutoSavedSettings() returns null or the saved
\* settings, whose customDOC replaces the default unless it is missing
LoadAutoSavedSettings ==
    /\ ~probe.mounted
    /\ \E saved \in StoredDOCs \cup {NoObject} :
          probe' = [probe EXCEPT !.mounted = TRUE,
                                 !.customDOC = IF HasObject(saved) THEN saved
                                               ELSE [enabled |-> FALSE, value |-> I(1)]]
    /\ UNCHANGED <<calc, run>>

\* handleDOCToggle(enabled), with calculatedDOC = 1.0
handleDOCToggle ==
    /\ probe.mounted
    /\ probe' = IF ~useCustomDOC(probe)
                THEN onDOCChange(probe, Or(I(1), I(1)))
                ELSE onDOCChange(probe, Null)
    /\ UNCHANGED <<calc, run>>

\* handleDOCInputChange(value) of the input shown while useCustomDOC holds
handleDOCInputChange ==
    /\ probe.mounted
    /\ useCustomDOC(probe)
    /\ \E value \in DOCTexts :
          probe' = IF parseFloat(value) # NaN /\ Gt(parseFloat(value), I(0))
                   THEN onDOCChange(probe, parseFloat(value))
                   ELSE probe
    /\ UNCHANGED <<calc, run>>

\* handleImportSettings: if (settings.customDOC) setCustomDOC(settings.customDOC)
handleImportSettings ==
    /\ probe.mounted
    /\ \E imported \in StoredDOCs \cup {NoObject} :
          probe' = IF HasObject(imported)
                   THEN [probe EXCEPT !.customDOC = imported] ELSE probe
    /\ UNCHANGED <<calc, run>>

\* the debounced calculateResults() scheduled after a change
Recalculate ==
    /\ probe.mounted
    /\ calculateResults

NextDOC ==
    \/ LoadAutoSavedSettings
    \/ handleDOCToggle
    \/ handleDOCInputChange
    \/ handleImportSettings
    \/ Recalculate

SpecDOC == InitDOC /\ [][NextDOC]_vars

-----------------------------------------------------------------------------
(* Two requests that differ in aggressiveness only: the nominal surface
   speed and the nominal chip load of calculate() (lines 28-48), before the
   RPM clamp, the chip-thinning correction and the later stages.           *)

MaxAggressivenessSteps == 6

\* aggressiveness in steps of 1/4
ProbedAggressivenesses == {Q(k, 4) : k \in 1..MaxAggressivenessSteps}

\* calculators for one request per tool, material and cut type
InitAggressiveness ==
    /\ calc \in {c \in Requests :
                    /\ c.machine.id = "printnc"
                    /\ c.spindle.id = "water_2_2kw"
                    /\ c.cutType \in {"slot", "profile"}
                    /\ c.aggressiveness = I(1)
                    /\ c.userDOC = Null}
    /\ run = NoRun
    /\ probe = NoProbe

\* the calculator with its aggressiveness set
WithAggressiveness(c, aggressiveness) == [c EXCEPT !.aggressiveness = aggressiveness]

\* vc (line 30) and fz before chip thinning (line 48)
Nominal(l) == [vc |-> l.vc, fz |-> l.fzNominal]

\* the nominal values of calculate() on two calculators that differ in
\* aggressiveness only
CompareAggressiveness ==
    /\ \E lower \in ProbedAggressivenesses, higher \in ProbedAggressivenesses :
           /\ Le(lower, higher)
           /\ probe' = [done |-> TRUE,
                        in |-> [lower |-> lower, higher |-> higher],
                        out |-> [lower |-> Nominal(Chipload(WithAggressiveness(calc, lower),
                                               Speeds(WithAggressiveness(calc, lower)))),
                                 higher |-> Nominal(Chipload(WithAggressiveness(calc, higher),
                                                Speeds(WithAggressiveness(calc, higher))))]]
    /\ UNCHANGED <<calc, run>>

NextAggressiveness == CompareAggressiveness

SpecAggressiveness == InitAggressiveness /\ [][NextAggressiveness]_vars

-----------------------------------------------------------------------------
(* The RPM clamp of calculate() (lines 35-43) applied to its own output, on
   the catalog spindles and on a spindle record whose limits are swapped.  *)

\* a spindle record with rpm_min above rpm_max
SwappedSpindle == Spindle("swapped", Q(22, 10), 24000, 6000, 12000)

InitClamp ==
    /\ calc \in {c \in Requests :
                    /\ c.machine.id = "printnc"
                    /\ c.material.id = "al_6061_t6"
                    /\ c.tool.type = "endmill_flat" /\ c.tool.diameter_mm = I(6)
                    /\ c.cutType = "slot"
                    /\ c.aggressiveness = I(1)
                    /\ c.userDOC = Null}
             \cup {NewCalculator(CHOOSE m \in Machines : m.id = "printnc",
                                 SwappedSpindle,
                                 CHOOSE t \in Tools : t.type = "endmill_flat"
                                                      /\ t.diameter_mm = I(6),
                                 CHOOSE a \in Materials : a.id = "al_6061_t6",
                                 "slot", I(1), Null)}
    /\ run = NoRun
    /\ probe = NoProbe

\* the clamp on a computed RPM, then on the RPM it returned
ClampTwice ==
    /\ \E rpm \in ProbedRpms :
           probe' = [done |-> TRUE, in |-> rpm,
                     out |-> [first |-> ClampRPM(calc, rpm),
                              second |-> ClampRPM(calc, ClampRPM(calc, rpm).rpm)]]
    /\ UNCHANGED <<calc, run>>

NextClamp == ClampTwice

SpecClamp == InitClamp /\ [][NextClamp]_vars

-----------------------------------------------------------------------------
(* The consumers of the result list: exportResultsAsCSV() and
   copyResultsToClipboard(), called by the results display with the list
   calculateResults() stored (one material selected, so that the display's
   sort by material keeps the order).  A cell is <<>> for the empty string
   and <<v>> for the value v; run.csv and run.clipboard hold what was
   written.                                                                *)

\* the fields calculateResults() reads from the record calculate() returned
BaseResultReads == {"rpm", "feed_rate_mm_min", "doc_mm", "woc_mm", "cutting_force_N"}

\* the number columns of a CSV row after RPM, in the order of the header
CsvNumberFields ==
    <<"feed_rate_mm_min", "chipload_mm", "woc_mm", "doc_mm", "mrr_mm3_min",
      "power_required_W", "cutting_force_N", "tool_deflection_mm">>

\* the number fields of the clipboard text after RPM
ClipboardFields ==
    <<"feed_rate_mm_min", "chipload_mm", "power_required_W", "tool_deflection_mm">>

\* value || '' of a text field
TextCell(result, name) == IF name \in DOMAIN result THEN <<result[name]>> ELSE <<>>

\* value || '' of a number: undefined, NaN and 0 give the empty string
NumberCell(value) == IF ~IsNum(value) \/ value[1] = 0 THEN <<>> ELSE <<value>>

\* result.rpm, undefined in an error entry
RpmOf(result) == IF "rpm" \in DOMAIN result THEN I(result.rpm) ELSE Undefined

\* the messages of result.warnings
MessagesOf(result) == [w \in DOMAIN result.warnings |-> result.warnings[w].message]

\* one row of exportResultsAsCSV
CsvRow(result) ==
    <<TextCell(result, "material"), TextCell(result, "cutType"),
      TextCell(result, "toolType"), NumberCell(result.tool.diameter_mm),
      NumberCell(RpmOf(result))>>
    \o [k \in DOMAIN CsvNumberFields |-> NumberCell(Lookup(result, CsvNumberFields[k]))]
    \o <<MessagesOf(result)>>

\* the lines of one result in copyResultsToClipboard: label and value, a
\* missing field printing as undefined
ClipboardLines(result) ==
    <<<<"Material", result.material>>, <<"Cut Type", result.cutType>>,
      <<"RPM", RpmOf(result)>>>>
    \o [k \in DOMAIN ClipboardFields |->
           <<ClipboardFields[k], Lookup(result, ClipboardFields[k])>>]
    \o (IF Len(result.warnings) > 0 THEN <<<<"Warnings", MessagesOf(result)>>>> ELSE <<>>)

\* the states of the application whose results are exported
InitExport ==
    /\ calc = NoObject
    /\ run = NoRun
    /\ probe \in {app \in AppStates :
                     /\ app.selectedMachine \in {"printnc", "custom"}
                     /\ app.customMachineConfig = NoObject
                     /\ Len(app.selectedMaterials) = 1
                     /\ app.customDOC = [enabled |-> TRUE, value |-> I(3)]}

\* handleExportCSV: exportResultsAsCSV(processedResults)
exportResultsAsCSV ==
    /\ run.status # "none"
    /\ "csv" \notin DOMAIN run
    /\ run' = [csv |-> [i \in DOMAIN run.results |-> CsvRow(run.results[i])]] @@ run
    /\ UNCHANGED <<calc, probe>>

\* handleCopyToClipboard: copyResultsToClipboard(processedResults)
copyResultsToClipboard ==
    /\ run.status # "none"
    /\ "clipboard" \notin DOMAIN run
    /\ run' = [clipboard |-> [i \in DOMAIN run.results |-> ClipboardLines(run.results[i])]]
              @@ run
    /\ UNCHANGED <<calc, probe>>

NextExport ==
    \/ CalculateResults
    \/ exportResultsAsCSV
    \/ copyResultsToClipboard

SpecExport == InitExport /\ [][NextExport]_vars

-----------------------------------------------------------------------------
(* The feed of calculate() in rounded arithmetic: "Calculate feed rate",    *)
(* "Check machine feed limits" and "Power limiting", applied to the values  *)
(* the earlier sections hand them.                                          *)

\* "Calculate feed rate"
FeedRounded(rpm, z, fz) ==
    [vf |-> FlMul(FlMul(rpm, z), fz), fzAdjusted |-> fz]

\* "Check machine feed limits"
LimitFeedRounded(maxFeed, rpm, z, f) ==
    IF FlGt(f.vf, maxFeed)
    THEN [vf |-> maxFeed, fzAdjusted |-> FlDiv(maxFeed, FlMul(rpm, z)),
          limited |-> TRUE]
    ELSE [vf |-> f.vf, fzAdjusted |-> f.fzAdjusted, limited |-> FALSE]

\* "Power limiting", for vf and fzAdjusted
ScaleFeedRounded(f, powerRequired, powerAvailable) ==
    LET powered == LimitPowerRounded(f.vf, powerRequired, powerAvailable)
    IN  [vf |-> powered.vf,
         fzAdjusted |-> IF powered.limited
                        THEN FlMul(f.fzAdjusted, powered.powerRatio)
                        ELSE f.fzAdjusted,
         limited |-> powered.limited]

\* values of the locals and catalog entries the three sections read
FeedInputs ==
    [rpm : {Fl(6000, 1), Fl(10500, 1), Fl(16000, 1), Fl(19700, 1), Fl(24000, 1)},
     z : {Fl(k, 1) : k \in 1..4},
     fz : {Fl(35, 1000), Fl(5, 100), Fl(1, 10)},
     maxFeed : {Fl(2000, 1), Fl(6000, 1)},
     specificEnergy : {Fl(5, 10), Fl(25, 10)},
     toolFactor : {Fl(1, 1)},
     K_rigidity : {Fl(1, 1)},
     ae : {Fl(6, 1)},
     ap : {Fl(45, 10)},
     powerAvailable : {Fl(10625, 10), Fl(1870, 1)}]

InitFeed ==
    /\ calc = NoObject
    /\ run = NoRun
    /\ probe \in {[done |-> FALSE, in |-> i] : i \in FeedInputs}

\* the three sections in the order of calculate()
FeedStages ==
    /\ ~probe.done
    /\ LET i == probe.in
           nominal == FeedRounded(i.rpm, i.z, i.fz)
           clamped == LimitFeedRounded(i.maxFeed, i.rpm, i.z, nominal)
           powerRequired == calculateImprovedPowerRounded(i, i.ae, i.ap, clamped.vf)
       IN  probe' = [done |-> TRUE, in |-> i,
                     out |-> [nominal |-> nominal,
                              clamped |-> clamped,
                              scaled |-> ScaleFeedRounded(clamped, powerRequired,
                                                          i.powerAvailable)]]
    /\ UNCHANGED <<calc, run>>

NextFeed == FeedStages

SpecFeed == InitFeed /\ [][NextFeed]_vars

-----------------------------------------------------------------------------
(* Properties of calculate()                                               *)

\* calculate() has been called / has returned its result
Ran == run.status # "none"
Returned == run.status = "returned"

\* how many warnings of the last call carry the message
CountWarning(message) ==
    Cardinality({i \in DOMAIN run.warnings : run.warnings[i].message = message})

\* C1: the spindles have rpm_min <= rpm_max; after every call the resolved
\* RPM lies in [rpm_min, rpm_max] (and so does the rounded rpm of the result),
\* 'RPM limited by spindle minimum' was appended once exactly when the
\* nominal RPM was below rpm_min and not at all otherwise, likewise 'RPM
\* limited by spindle maximum' for a nominal RPM above rpm_max, and never
\* both
C1_RpmWithinSpindleLimits ==
    Ran /\ Le(calc.spindle.rpm_min, calc.spindle.rpm_max) =>
        /\ Le(calc.spindle.rpm_min, run.locals.rpm)
        /\ Le(run.locals.rpm, calc.spindle.rpm_max)
        /\ Returned => /\ Le(calc.spindle.rpm_min, I(run.result.rpm))
                       /\ Le(I(run.result.rpm), calc.spindle.rpm_max)
        /\ CountWarning("RPM limited by spindle minimum")
               = IF Lt(run.locals.rpmNominal, calc.spindle.rpm_min) THEN 1 ELSE 0
        /\ CountWarning("RPM limited by spindle maximum")
               = IF Gt(run.locals.rpmNominal, calc.spindle.rpm_max) THEN 1 ELSE 0
        /\ CountWarning("RPM limited by spindle minimum")
               + CountWarning("RPM limited by spindle maximum") <= 1

\* a call whose nominal RPM was above the spindle's maximum and was clamped
C1_ClampedAtMaximum ==
    /\ Returned
    /\ Gt(run.locals.rpmNominal, calc.spindle.rpm_max)
    /\ run.locals.rpm = calc.spindle.rpm_max
    /\ CountWarning("RPM limited by spindle maximum") = 1

\* a call whose nominal RPM was below the spindle's minimum and was clamped
ClampedAtMinimum ==
    /\ Returned
    /\ Lt(run.locals.rpmNominal, calc.spindle.rpm_min)
    /\ run.locals.rpm = calc.spindle.rpm_min

\* a call whose nominal RPM was inside the spindle's range
NotClamped ==
    /\ Returned
    /\ run.locals.rpm = run.locals.rpmNominal

\* the lowest of the machine's per-axis feed ceilings
FeedCeiling ==
    LET f == calc.machine.max_feed_mm_min
    IN  IF Le(f.x, f.y) /\ Le(f.x, f.z) THEN f.x
        ELSE IF Le(f.y, f.z) THEN f.y ELSE f.z

\* C2: when calculate() returns, the feed rate (also after power scaling, and
\* as rounded into the result) is at most the lowest per-axis ceiling of the
\* machine; when the nominal feed exceeded the ceiling, the feed before power
\* scaling equals the ceiling, the effective chip load before power scaling
\* is ceiling / (RPM x flutes) and one 'Feed limited by machine' warning was
\* appended; otherwise feed and chip load are the nominal ones and no such
\* warning was appended
C2_FeedWithinMachineCeiling ==
    Returned =>
        /\ Le(run.locals.vf, FeedCeiling)
        /\ Le(I(run.result.feed_mm_min), FeedCeiling)
        /\ IF Gt(run.locals.vfNominal, FeedCeiling)
           THEN /\ run.locals.vfClamped = FeedCeiling
                /\ run.locals.fzClamped
                       = Div(FeedCeiling, Mul(run.locals.rpm, run.locals.z))
                /\ CountWarning("Feed limited by machine") = 1
           ELSE /\ run.locals.vfClamped = run.locals.vfNominal
                /\ run.locals.fzClamped = run.locals.fz
                /\ CountWarning("Feed limited by machine") = 0

\* a call whose nominal feed exceeded the ceiling and whose clamped feed was
\* then scaled down by the power balancer
C2_ClampedThenPowerScaled ==
    /\ Returned
    /\ Gt(run.locals.vfNominal, FeedCeiling)
    /\ IsNum(run.locals.powerRatio)
    /\ Lt(run.locals.vf, FeedCeiling)
    /\ run.locals.fzClamped # run.locals.fz

\* a call whose nominal feed was below the ceiling
FeedNotClamped ==
    /\ Returned
    /\ Lt(run.locals.vfNominal, FeedCeiling)

\* required power exceeded 0.9 x available power in the last call
OverPower ==
    Gt(run.locals.powerRequired, Mul(run.locals.powerAvailable, Q(9, 10)))

\* (available x 0.85) / required of the last call
ScaleFactor ==
    Div(Mul(run.locals.powerAvailable, Q(85, 100)), run.locals.powerRequired)

\* C3: when calculate() returns and required power > 0.9 x available power,
\* the final feed rate, effective chip load and MRR are the values before
\* power limiting times (available x 0.85) / required, one 'Power limited'
\* warning was appended, the cutting force is the one of the scaled chip
\* load, the deflection of a slender tool is the one of that force and the
\* chip-load diagnostics are those of the scaled chip load; when required
\* power <= 0.9 x available power the three values are unchanged and no
\* 'Power limited' warning was appended
C3_PowerLimitingScalesOnce ==
    Returned =>
        IF OverPower
        THEN /\ run.locals.vf = Mul(run.locals.vfClamped, ScaleFactor)
             /\ run.locals.fzAdjusted = Mul(run.locals.fzClamped, ScaleFactor)
             /\ run.locals.mrr = Mul(run.locals.mrrNominal, ScaleFactor)
             /\ CountWarning("Power limited") = 1
             /\ run.locals.cuttingForce
                    = calculateCuttingForce(calc, run.locals.ae, run.locals.ap,
                                            Mul(run.locals.fzClamped, ScaleFactor))
             /\ calc.tool.type \in {"endmill_flat", "endmill_ball", "tapered"}
                    => run.locals.deflection
                           = calculateImprovedDeflection(calc, run.locals.cuttingForce)
             /\ \A w \in {"Chipload too low - rubbing risk",
                           "Chipload very high - check tool strength"} :
                    CountWarning(w) =
                        Cardinality({i \in DOMAIN validateChipload(calc,
                                         Mul(run.locals.fzClamped, ScaleFactor),
                                         run.locals.fzRange) :
                                     validateChipload(calc,
                                         Mul(run.locals.fzClamped, ScaleFactor),
                                         run.locals.fzRange)[i].message = w})
        ELSE /\ run.locals.vf = run.locals.vfClamped
             /\ run.locals.fzAdjusted = run.locals.fzClamped
             /\ run.locals.mrr = run.locals.mrrNominal
             /\ CountWarning("Power limited") = 0

\* a power-limited call whose chip load was in range before the scaling and
\* drew the rubbing diagnostic after it
C3_ScaledChiploadDiagnosed ==
    /\ Returned
    /\ OverPower
    /\ validateChipload(calc, run.locals.fzClamped, run.locals.fzRange) = <<>>
    /\ CountWarning("Chipload too low - rubbing risk") = 1
    /\ run.locals.vf # run.locals.vfClamped

\* a call that was not power limited
NotPowerLimited ==
    /\ Returned
    /\ ~OverPower
    /\ Gt(run.locals.powerRequired, I(0))

ScaleFactorInRangeRounded ==
    probe.done /\ probe.out.limited =>
        /\ FlGt(probe.out.powerRatio, <<0, 0>>)
        /\ FlLe(probe.out.powerRatio, Fl(1, 1))

\* C4 without the rounding: with exact products and quotients the factor is
\* in (0, 1] and the rescaled power is at most available power x 0.85
RescaledPowerWithinBudgetExact ==
    Returned /\ OverPower =>
        /\ run.locals.powerRatio = ScaleFactor
        /\ Gt(ScaleFactor, I(0))
        /\ Le(ScaleFactor, I(1))
        /\ Le(calculateImprovedPower(calc, run.locals.ae, run.locals.ap,
                                     run.locals.vf),
              Mul(run.locals.powerAvailable, Q(85, 100)))

\* 1.15 x (MRR x specific cutting energy / 60) x tool-type power factor x
\* K_rigidity for the MRR calculateMRR gave before power scaling
PowerOfVariantMRR ==
    Mul(Mul(Mul(Q(115, 100),
                Div(Mul(run.locals.mrrNominal,
                        Or(calc.material.specific_cutting_energy_J_mm3,
                           getSpecificCuttingEnergy(calc))),
                    I(60))),
            getToolPowerFactor(calc)),
        calc.machine.K_rigidity)

\* C5: for every tool variant the required power of a call that returned
\* equals 1.15 x (MRR x specific cutting energy / 60) x tool-type power
\* factor x K_rigidity, with the MRR of calculateMRR before power scaling:
\* (pi x D^2 / 4) x feed for a drill, ae x ap x feed for the others
C5_RequiredPowerFromVariantMRR ==
    Returned => run.locals.powerRequired = PowerOfVariantMRR

\* C5 for the variants other than the drill
RequiredPowerFromRectangularMRR ==
    Returned /\ calc.tool.type # "drill" =>
        /\ run.locals.mrrNominal
               = Mul(Mul(run.locals.ae, run.locals.ap), run.locals.vfClamped)
        /\ run.locals.powerRequired = PowerOfVariantMRR

\* for a drill the required power is the one of ae x ap x feed = 0.5 D^2 x
\* feed, not of the (pi x D^2 / 4) x feed that calculateMRR reports
DrillPowerFromRectangularMRR ==
    Returned /\ calc.tool.type = "drill" /\ calc.userDOC = Null =>
        /\ run.locals.mrrNominal
               = Mul(Div(Mul(Mul(PI, run.locals.D), run.locals.D), I(4)),
                     run.locals.vfClamped)
        /\ run.locals.powerRequired
               = Mul(PowerOfVariantMRR, Div(I(2), PI))

\* rated power x 0.85 of the spindle, in watts
FullPower == Mul(Mul(calc.spindle.rated_power_kW, I(1000)), Q(85, 100))

\* C6: getSpindlePowerAtRPM returns 0 for every rpm outside [rpm_min,
\* rpm_max]; for a spindle with rpm_min <= base_rpm <= rpm_max it returns
\* rated power x 0.85 at rpm = base_rpm and for every rpm in (base_rpm,
\* rpm_max], and never more than that below base_rpm
C6_SpindlePowerCurve ==
    probe.done =>
        /\ Lt(probe.in, calc.spindle.rpm_min) \/ Gt(probe.in, calc.spindle.rpm_max)
               => probe.out = I(0)
        /\ (/\ Le(calc.spindle.rpm_min, calc.spindle.base_rpm)
            /\ Le(calc.spindle.base_rpm, calc.spindle.rpm_max)
            /\ Le(calc.spindle.rpm_min, probe.in)
            /\ Le(probe.in, calc.spindle.rpm_max))
               => /\ probe.in = calc.spindle.base_rpm => probe.out = FullPower
                  /\ Gt(probe.in, calc.spindle.base_rpm) => probe.out = FullPower
                  /\ Lt(probe.in, calc.spindle.base_rpm) => Le(probe.out, FullPower)

\* C6 away from rpm = base_rpm: 0 outside the range, rated power x 0.85
\* above base_rpm, at most that from rpm_min up to base_rpm
SpindlePowerCurveOffBase ==
    probe.done =>
        /\ Lt(probe.in, calc.spindle.rpm_min) \/ Gt(probe.in, calc.spindle.rpm_max)
               => probe.out = I(0)
        /\ Le(calc.spindle.rpm_min, probe.in) /\ Le(probe.in, calc.spindle.rpm_max)
               => /\ Gt(probe.in, calc.spindle.base_rpm) => probe.out = FullPower
                  /\ Le(probe.in, calc.spindle.base_rpm) => Le(probe.out, FullPower)

\* at rpm = base_rpm the power is rated power x 0.85 times
\* min(base_rpm / (1.5 x rpm_min), 1): the full power only for a spindle
\* with base_rpm >= 1.5 x rpm_min
SpindlePowerAtBase ==
    probe.done /\ probe.in = calc.spindle.base_rpm =>
        probe.out = Mul(FullPower,
                        Min2(Div(calc.spindle.base_rpm,
                                 Mul(calc.spindle.rpm_min, Q(15, 10))), I(1)))

\* the calculator of the last call with the override taken away
WithoutOverride == [calc EXCEPT !.userDOC = Null]

\* C7: with a user depth of cut supplied, the call leaves ap = userDOC for
\* every tool and cut type and the ae it computes without the override, and
\* appends one 'User DOC ... exceeds recommended maximum' warning exactly
\* when userDOC > D x material.max_axial_per_pass_D[cutType] (1.0 for a cut
\* type the material does not list); without an override there is no such
\* warning; a returned result has user_doc_override true exactly when an
\* override was supplied
C7_UserDOCOverride ==
    /\ Ran /\ calc.userDOC # Null =>
           /\ run.locals.ap = calc.userDOC
           /\ run.locals.ae = getEngagementParams(WithoutOverride, run.locals.D).ae
           /\ CountWarning("User DOC exceeds recommended maximum")
                  = IF Gt(calc.userDOC,
                          Mul(run.locals.D,
                              IF IsNum(Lookup(calc.material.max_axial_per_pass_D,
                                              calc.cutType))
                              THEN Lookup(calc.material.max_axial_per_pass_D,
                                          calc.cutType)
                              ELSE I(1)))
                    THEN 1 ELSE 0
    /\ Ran /\ calc.userDOC = Null =>
           CountWarning("User DOC exceeds recommended maximum") = 0
    /\ Returned =>
           /\ run.result.user_doc_override = (calc.userDOC # Null)
           /\ calc.userDOC # Null => run.result.ap_mm = ToFixed(calc.userDOC, 2)

\* a call with an override above the limit of a cut type the material does
\* not list: accepted as ap, flagged in the result, and warned about
C7_OverrideAboveDefaultLimit ==
    /\ Returned
    /\ calc.userDOC # Null
    /\ ~IsNum(Lookup(calc.material.max_axial_per_pass_D, calc.cutType))
    /\ Gt(calc.userDOC, run.locals.D)
    /\ run.locals.ap = calc.userDOC
    /\ run.result.user_doc_override
    /\ CountWarning("User DOC exceeds recommended maximum") = 1
    /\ run.locals.ap # getEngagementParams(WithoutOverride, run.locals.D).ap

\* a call with an override within the limit
OverrideWithinLimit ==
    /\ Returned
    /\ calc.userDOC # Null
    /\ CountWarning("User DOC exceeds recommended maximum") = 0

\* the midpoint of a fraction range
Midpoint(range) == Div(Add(range[1], range[2]), I(2))

\* C8: for a tool other than a drill or a V-bit, a cut type listed in
\* CUT_TYPES for which the material lists both limits, and no override,
\* ap = min(D x m_ap, D x material max axial fraction) x aggressiveness.axial
\* and, for a cut other than a slot whose CUT_TYPES entry has an
\* ae_fraction_range, ae = min(D x m_ae, D x material max radial fraction) x
\* aggressiveness.radial, with m_ap and m_ae the midpoints of the ranges of
\* the cut type in CUT_TYPES; for a slot ae = D
C8_EngagementFromCutTypes ==
    /\ Ran
    /\ calc.tool.type \notin {"drill", "vbit"}
    /\ calc.userDOC = Null
    /\ calc.cutType \in DOMAIN CUT_TYPES
    /\ IsNum(Lookup(calc.material.max_axial_per_pass_D, calc.cutType))
    /\ IsNum(Lookup(calc.material.max_radial_engagement_fraction, calc.cutType))
    => /\ run.locals.ap
              = Mul(Min2(Mul(run.locals.D,
                             Midpoint(CUT_TYPES[calc.cutType].ap_fraction_range)),
                         Mul(run.locals.D,
                             calc.material.max_axial_per_pass_D[calc.cutType])),
                    calc.machine.aggressiveness.axial)
       /\ calc.cutType = "slot" => run.locals.ae = run.locals.D
       /\ calc.cutType # "slot"
             /\ IsNum(CUT_TYPES[calc.cutType].ae_fraction_range[1])
          => run.locals.ae
                 = Mul(Min2(Mul(run.locals.D,
                                Midpoint(CUT_TYPES[calc.cutType].ae_fraction_range)),
                            Mul(run.locals.D,
                                calc.material.max_radial_engagement_fraction[
                                    calc.cutType])),
                       calc.machine.aggressiveness.radial)

\* what the resolver does for those requests: the same formula with the
\* fractions of getCutDefinition (0.3 radial, the midpoint 0.75 of [0.5, 1.0]
\* axial) for every cut type
EngagementFromFixedFractions ==
    /\ Ran
    /\ calc.tool.type \notin {"drill", "vbit"}
    /\ calc.userDOC = Null
    /\ IsNum(Lookup(calc.material.max_axial_per_pass_D, calc.cutType))
    /\ IsNum(Lookup(calc.material.max_radial_engagement_fraction, calc.cutType))
    => /\ run.locals.ap
              = Mul(Min2(Mul(run.locals.D, Q(75, 100)),
                         Mul(run.locals.D,
                             calc.material.max_axial_per_pass_D[calc.cutType])),
                    calc.machine.aggressiveness.axial)
       /\ calc.cutType = "slot" => run.locals.ae = run.locals.D
       /\ calc.cutType # "slot"
          => run.locals.ae
                 = Mul(Min2(Mul(run.locals.D, Q(3, 10)),
                            Mul(run.locals.D,
                                calc.material.max_radial_engagement_fraction[
                                    calc.cutType])),
                       calc.machine.aggressiveness.radial)

\* C9: for a drill with no override the call leaves ae = D and ap = 0.5 x D,
\* and the resolver returns that same pair for the drill under every other
\* cut type, material and machine of the requests
C9_DrillEngagementFixed ==
    Ran /\ calc.tool.type = "drill" /\ calc.userDOC = Null =>
        /\ run.locals.D = calc.tool.diameter_mm
        /\ run.locals.ae = run.locals.D
        /\ run.locals.ap = Mul(Q(5, 10), run.locals.D)
        /\ \A m \in Machines, mat \in Materials, ct \in RequestCutTypes :
               LET other == getEngagementParams(
                                [calc EXCEPT !.machine = m, !.material = mat,
                                             !.cutType = ct], run.locals.D)
               IN  other.ae = run.locals.ae /\ other.ap = run.locals.ap

\* a drill sent on a profile cut on the machine with the highest
\* aggressiveness, in a material whose limits for the cut are below 1
C9_DrillOnProfileCut ==
    /\ Returned
    /\ calc.tool.type = "drill"
    /\ calc.userDOC = Null
    /\ calc.cutType = "profile"
    /\ calc.machine.id = "vmc_like"
    /\ calc.material.id = "steel_1018"
    /\ run.locals.ae = I(6)
    /\ run.locals.ap = I(3)

\* C10: in a call that returned, every catalog lookup miss fell back to
\* 1.0: the radial and the axial limit fraction of a cut type the material
\* does not list, the speed factor of a cut type that has none, the
\* chip-load multiplier of a tool type the material does not list, and the
\* force and power factors of a tool type that has none
C10_LookupMissesFallBackToOne ==
    Returned =>
        /\ ~IsNum(Lookup(calc.material.max_radial_engagement_fraction, calc.cutType))
               => maxRadialFraction(calc) = I(1)
        /\ ~IsNum(Lookup(calc.material.max_axial_per_pass_D, calc.cutType))
               => maxAxialFraction(calc) = I(1)
        /\ ~IsNum(Lookup(speedFactors, calc.cutType)) => getSpeedFactor(calc) = I(1)
        /\ ~IsNum(Lookup(calc.material.toolChiploadFactors, calc.tool.type))
               => run.locals.fzNominal
                      = Mul(Midpoint(run.locals.fzRange), calc.aggressiveness)
        /\ calc.tool.type \notin {"drill", "vbit", "chamfer", "facemill"}
               => run.locals.cuttingForce
                      = Mul(Mul(calc.material.force_coeff_KN_mm2,
                                Mul(run.locals.ae, run.locals.fzAdjusted)), I(1000))
        /\ calc.tool.type \notin {"facemill", "slitting", "drill", "endmill_ball"}
               => getToolPowerFactor(calc) = I(1)

\* C10 for a call that returned, the radial limit left out
OtherMissesFallBackToOne ==
    Returned =>
        /\ ~IsNum(Lookup(calc.material.max_axial_per_pass_D, calc.cutType))
               => maxAxialFraction(calc) = I(1)
        /\ ~IsNum(Lookup(speedFactors, calc.cutType)) => getSpeedFactor(calc) = I(1)
        /\ ~IsNum(Lookup(calc.material.toolChiploadFactors, calc.tool.type))
               => run.locals.fzNominal
                      = Mul(Midpoint(run.locals.fzRange), calc.aggressiveness)
        /\ calc.tool.type \notin {"drill", "vbit", "chamfer", "facemill"}
               => run.locals.cuttingForce
                      = Mul(Mul(calc.material.force_coeff_KN_mm2,
                                Mul(run.locals.ae, run.locals.fzAdjusted)), I(1000))
        /\ calc.tool.type \notin {"facemill", "slitting", "drill", "endmill_ball"}
               => getToolPowerFactor(calc) = I(1)

\* the radial limit of a cut type the material does not list is 0.3 x D
RadialMissFallsBackToThreeTenths ==
    Ran /\ ~IsNum(Lookup(calc.material.max_radial_engagement_fraction, calc.cutType))
        => maxRadialFraction(calc) = Q(3, 10)

\* a call on a machine that lists no feed ceilings throws
MissingFeedCeilingsThrow ==
    Ran => (run.status = "threw") = ~HasObject(calc.machine.max_feed_mm_min)

\* the material defines a chip-thinning threshold and ae is below D x threshold
BelowThinningThreshold ==
    /\ IsNum(calc.material.chip_thinning)
    /\ Lt(run.locals.ae, Mul(run.locals.D, calc.material.chip_thinning))

\* how many warnings of the last call carry the message with the severity
CountEntry(type, message) ==
    Cardinality({i \in DOMAIN run.warnings :
                    /\ run.warnings[i].type = type
                    /\ run.warnings[i].message = message})

\* C11: after every call, the chip load was corrected exactly when the
\* material defines a chip-thinning threshold and ae < D x threshold; when it
\* was, the chip load is the nominal one times sqrt(D / ae), the feed rate
\* computed next is RPM x flutes x the corrected chip load and exactly one
\* 'Chip thinning compensation applied' entry, of severity info, was
\* appended; when it was not, the chip load is the nominal one, the feed rate
\* is RPM x flutes x that chip load and no such entry was appended
C11_ChipThinningBeforeFeed ==
    Ran =>
        /\ run.locals.thinning = BelowThinningThreshold
        /\ run.locals.vfNominal
               = Mul(Mul(run.locals.rpm, run.locals.z), run.locals.fz)
        /\ IF BelowThinningThreshold
           THEN /\ run.locals.fz
                       = Mul(run.locals.fzNominal,
                             Sqrt(Div(run.locals.D, run.locals.ae)))
                /\ CountWarning("Chip thinning compensation applied") = 1
                /\ CountEntry("info", "Chip thinning compensation applied") = 1
           ELSE /\ run.locals.fz = run.locals.fzNominal
                /\ CountWarning("Chip thinning compensation applied") = 0

\* a call with ae below the threshold whose chip load, and with it the feed
\* rate, was raised by the correction
C11_ChipLoadCorrected ==
    /\ Returned
    /\ BelowThinningThreshold
    /\ Gt(run.locals.fz, run.locals.fzNominal)
    /\ Gt(run.locals.vfNominal,
          Mul(Mul(run.locals.rpm, run.locals.z), run.locals.fzNominal))
    /\ CountEntry("info", "Chip thinning compensation applied") = 1

\* a call on a material without a threshold and with a narrow radial engagement
NoThresholdNoCorrection ==
    /\ Returned
    /\ ~IsNum(calc.material.chip_thinning)
    /\ Lt(run.locals.ae, Mul(run.locals.D, Q(1, 2)))
    /\ run.locals.fz = run.locals.fzNominal

-----------------------------------------------------------------------------
(* Properties of getChiploadRange()                                        *)

\* the table of the calculator and the positions of its buckets that are
\* large enough for the diameter asked for
ProbedTable == calc.material.fz_mm_per_tooth_by_diameter

FittingBuckets ==
    {i \in DOMAIN ProbedTable : ~Lt(ProbedTable[i].max_d_mm, probe.in)}

\* C12: getChiploadRange(d) returns the range of the first bucket, in table
\* order, whose max_d_mm >= d, and the range of the last bucket when no
\* bucket's max_d_mm is >= d
C12_FirstFittingBucket ==
    probe.done =>
        IF FittingBuckets = {}
        THEN probe.out = ProbedTable[Len(ProbedTable)].range
        ELSE \E i \in FittingBuckets :
                 /\ \A k \in FittingBuckets : i <= k
                 /\ probe.out = ProbedTable[i].range

\* a table that is not in ascending order, asked for the size of its third
\* bucket: the first bucket is too small, the second fits and is larger than
\* the third, and the second bucket's range is returned
C12_FirstOfSeveralInUnsortedTable ==
    /\ probe.done
    /\ Len(ProbedTable) = 3
    /\ FittingBuckets = {2, 3}
    /\ ProbedTable[3].max_d_mm = probe.in
    /\ Lt(ProbedTable[3].max_d_mm, ProbedTable[2].max_d_mm)
    /\ probe.out = ProbedTable[2].range

\* a diameter above every bucket of the table: the last bucket's range
C12_AboveEveryBucket ==
    /\ probe.done
    /\ Len(ProbedTable) > 1
    /\ FittingBuckets = {}
    /\ probe.out = ProbedTable[Len(ProbedTable)].range

-----------------------------------------------------------------------------
(* Properties of the deflection diagnostic                                 *)

\* the entries pushed for the probed deflection, by severity
PushedDanger ==
    {i \in DOMAIN probe.out :
        probe.out[i].type = "danger" /\ probe.out[i].message = "High deflection"}

PushedWarning ==
    {i \in DOMAIN probe.out :
        probe.out[i].type = "warning" /\ probe.out[i].message = "Moderate deflection"}

\* C13 as stated: a danger entry whenever deflection >= 0.05 mm, a warning
\* entry whenever 0.02 mm <= deflection < 0.05 mm, no entry when
\* deflection < 0.02 mm, never both in one call
C13_DeflectionThresholdsInclusive ==
    probe.done =>
        /\ Len(probe.out) <= 1
        /\ Le(Q(5, 100), probe.in) => Cardinality(PushedDanger) = 1
        /\ (Le(Q(2, 100), probe.in) /\ Lt(probe.in, Q(5, 100)))
               => Cardinality(PushedWarning) = 1
        /\ Lt(probe.in, Q(2, 100)) => probe.out = <<>>

\* C13 as amended: a danger entry exactly when deflection > 0.05 mm, a
\* warning entry exactly when 0.02 mm < deflection <= 0.05 mm, no entry when
\* deflection <= 0.02 mm, never both in one call
C13_DeflectionThresholdsExclusive ==
    probe.done =>
        /\ Len(probe.out) <= 1
        /\ Cardinality(PushedDanger) = (IF Gt(probe.in, Q(5, 100)) THEN 1 ELSE 0)
        /\ Cardinality(PushedWarning)
               = (IF Gt(probe.in, Q(2, 100)) /\ Le(probe.in, Q(5, 100)) THEN 1 ELSE 0)
        /\ Le(probe.in, Q(2, 100)) => probe.out = <<>>

\* a deflection of exactly 0.05 mm drew the warning entry, not the danger one
C13_WarningAtUpperThreshold ==
    /\ probe.done
    /\ probe.in = Q(5, 100)
    /\ Cardinality(PushedWarning) = 1
    /\ PushedDanger = {}

\* a deflection of exactly 0.02 mm drew no entry
NoEntryAtLowerThreshold ==
    /\ probe.done
    /\ probe.in = Q(2, 100)
    /\ probe.out = <<>>

\* in calculate() itself the deflection entry follows the same thresholds
DeflectionEntryInCalls ==
    (Returned /\ calc.tool.type \in {"endmill_flat", "endmill_ball", "tapered"}) =>
        /\ CountEntry("danger", "High deflection")
               = (IF Gt(run.locals.deflection, Q(5, 100)) THEN 1 ELSE 0)
        /\ CountEntry("warning", "Moderate deflection")
               = (IF Gt(run.locals.deflection, Q(2, 100))
                     /\ Le(run.locals.deflection, Q(5, 100)) THEN 1 ELSE 0)

\* the tool types calculate() computes a deflection for
SlenderTool == calc.tool.type \in {"endmill_flat", "endmill_ball", "tapered"}

\* the deflection entries among the warnings of the last call
DeflectionEntries ==
    CountWarning("High deflection") + CountWarning("Moderate deflection")

\* C14: after every call that returned, the deflection is the one
\* calculateImprovedDeflection gives for the cutting force when the tool is
\* a flat end mill, a ball end mill or a tapered tool; for every other tool
\* type the deflection, also as reported in the result, is 0 and the
\* warnings hold no deflection entry, whatever the cutting force
C14_DeflectionOnlyForSlenderTools ==
    Returned =>
        IF SlenderTool
        THEN run.locals.deflection
                 = calculateImprovedDeflection(calc, run.locals.cuttingForce)
        ELSE /\ run.locals.deflection = I(0)
             /\ run.result.deflection_mm = ToFixed(I(0), 4)
             /\ DeflectionEntries = 0

\* a call for another tool type whose cutting force, put through
\* calculateImprovedDeflection, gives more than 0.05 mm: none is reported
C14_ForceWithoutDeflection ==
    /\ Returned
    /\ ~SlenderTool
    /\ Gt(calculateImprovedDeflection(calc, run.locals.cuttingForce), Q(5, 100))
    /\ run.locals.deflection = I(0)
    /\ DeflectionEntries = 0

\* a call for a slender tool with a deflection entry
SlenderToolDeflects ==
    /\ Returned
    /\ SlenderTool
    /\ Gt(run.locals.deflection, Q(5, 100))
    /\ DeflectionEntries = 1

-----------------------------------------------------------------------------
(* Properties of calculateImprovedDeflection()                             *)

\* C15: for one cutting force and one shank, the deflection is strictly
\* greater for the longer of two stickouts, for every pair of stickouts
C15_DeflectionGrowsWithStickout ==
    probe.done => Gt(probe.out.longer, probe.out.shorter)

\* the same for the pairs of positive stickouts
DeflectionGrowsWithPositiveStickout ==
    (probe.done /\ Gt(probe.in.shorter, I(0)))
        => Gt(probe.out.longer, probe.out.shorter)

\* a stickout of 0 mm is computed as one of 20 mm
ZeroStickoutComputedAsTwenty ==
    (probe.done /\ probe.in.shorter = I(0)) =>
        /\ probe.in.longer = I(20) => probe.out.longer = probe.out.shorter
        /\ Lt(probe.in.longer, I(20)) => Lt(probe.out.longer, probe.out.shorter)
        /\ Gt(probe.in.longer, I(20)) => Gt(probe.out.longer, probe.out.shorter)

-----------------------------------------------------------------------------
(* Properties of the chip-load and tool-specific diagnostics               *)

\* the effective chip load is below half the minimum / above one and a half
\* times the maximum of the looked-up range
BelowHalfMinimum ==
    Lt(run.locals.fzAdjusted, Mul(Q(5, 10), run.locals.fzRange[1]))

AboveMaximumAndHalf ==
    Gt(run.locals.fzAdjusted, Mul(Q(15, 10), run.locals.fzRange[2]))

\* C16: after every call that returned, the warnings hold one danger entry
\* 'rubbing risk' when the effective chip load is below 0.5 x the minimum of
\* the range and the tool is neither a drill nor a boring bar, and none
\* otherwise; and one warning entry 'Chipload very high' when the effective
\* chip load is above 1.5 x the maximum of the range, and none otherwise,
\* for every tool type
C16_ChiploadDiagnostics ==
    Returned =>
        /\ CountWarning("Chipload too low - rubbing risk")
               = (IF BelowHalfMinimum /\ calc.tool.type \notin {"drill", "boring"}
                  THEN 1 ELSE 0)
        /\ CountEntry("danger", "Chipload too low - rubbing risk")
               = CountWarning("Chipload too low - rubbing risk")
        /\ CountWarning("Chipload very high - check tool strength")
               = (IF AboveMaximumAndHalf THEN 1 ELSE 0)
        /\ CountEntry("warning", "Chipload very high - check tool strength")
               = CountWarning("Chipload very high - check tool strength")

\* a drill or a boring bar whose effective chip load is below half the
\* minimum draws no rubbing entry
C16_DrillBelowHalfMinimum ==
    /\ Returned
    /\ calc.tool.type \in {"drill", "boring"}
    /\ BelowHalfMinimum
    /\ CountWarning("Chipload too low - rubbing risk") = 0

\* calls that drew the rubbing entry and the high chip-load entry
RubbingEntry ==
    /\ Returned
    /\ BelowHalfMinimum
    /\ CountEntry("danger", "Chipload too low - rubbing risk") = 1

HighChiploadEntry ==
    /\ Returned
    /\ AboveMaximumAndHalf
    /\ calc.tool.type \in {"drill", "boring"}
    /\ CountEntry("warning", "Chipload very high - check tool strength") = 1

\* the five conditions of addToolSpecificWarnings on the values of the call
DeepVCarve ==
    calc.tool.type = "vbit" /\ Gt(run.locals.ap, Mul(Q(5, 10), run.locals.D))

FastSlitting == calc.tool.type = "slitting" /\ Gt(run.locals.vf, I(500))

HighBoringForce == calc.tool.type = "boring" /\ Gt(run.locals.cuttingForce, I(100))

SmallToolLoaded == Lt(run.locals.D, I(1)) /\ Gt(run.locals.cuttingForce, I(10))

VeryDeepDOC == calc.userDOC # Null /\ Gt(calc.userDOC, Mul(I(2), run.locals.D))

\* one warning-severity entry with the message when the condition holds, none
\* when it does not
OnePerCondition(condition, message) ==
    /\ CountWarning(message) = (IF condition THEN 1 ELSE 0)
    /\ CountEntry("warning", message) = CountWarning(message)

\* C17: after every call that returned, the warnings hold one entry for each
\* of the five conditions that holds and none for one that does not: V-bit
\* with ap > 0.5 x D, slitting saw with feed > 500, boring bar with force >
\* 100 N, effective diameter < 1 mm with force > 10 N, user depth of cut
\* > 2 x D
C17_ToolSpecificWarnings ==
    Returned =>
        /\ OnePerCondition(DeepVCarve, "Deep V-carve - consider multiple passes")
        /\ OnePerCondition(FastSlitting,
                           "High feed for slitting saw - watch for blade flex")
        /\ OnePerCondition(HighBoringForce, "High boring force - check bar rigidity")
        /\ OnePerCondition(SmallToolLoaded, "Small tool - risk of breakage")
        /\ OnePerCondition(VeryDeepDOC,
                           "Very deep DOC - ensure adequate chip evacuation")

\* a call in which two of the conditions hold and both entries are pushed
C17_TwoConditionsTwoEntries ==
    /\ Returned
    /\ VeryDeepDOC
    /\ DeepVCarve \/ FastSlitting \/ HighBoringForce \/ SmallToolLoaded
    /\ CountWarning("Very deep DOC - ensure adequate chip evacuation") = 1
    /\ CountWarning("Deep V-carve - consider multiple passes")
           + CountWarning("High feed for slitting saw - watch for blade flex")
           + CountWarning("High boring force - check bar rigidity")
           + CountWarning("Small tool - risk of breakage") = 1

\* each condition holds in some call, and fails in some call of its tool
DeepVCarveEntry == Returned /\ DeepVCarve
DeepCutOfOtherTool ==
    /\ Returned
    /\ calc.tool.type # "vbit"
    /\ Gt(run.locals.ap, Mul(Q(5, 10), run.locals.D))
    /\ CountWarning("Deep V-carve - consider multiple passes") = 0
FastSlittingEntry == Returned /\ FastSlitting
SlowSlitting == Returned /\ calc.tool.type = "slitting" /\ ~FastSlitting
HighBoringForceEntry == Returned /\ HighBoringForce
LowBoringForce == Returned /\ calc.tool.type = "boring" /\ ~HighBoringForce
SmallToolEntry == Returned /\ SmallToolLoaded
SmallToolLightlyLoaded == Returned /\ Lt(run.locals.D, I(1)) /\ ~SmallToolLoaded
VeryDeepDOCEntry == Returned /\ VeryDeepDOC
ModerateDOC == Returned /\ calc.userDOC # Null /\ ~VeryDeepDOC

-----------------------------------------------------------------------------
(* Properties of the warnings list                                         *)

SpeedEntries == {"RPM limited by spindle minimum", "RPM limited by spindle maximum"}
EngagementEntries == {"User DOC exceeds recommended maximum"}
FeedEntries == {"Chip thinning compensation applied", "Feed limited by machine"}
PowerEntries == {"Power limited"}
DeflectionStageEntries == {"High deflection", "Moderate deflection"}

\* the pipeline stage of an entry when the engagement resolver is taken to
\* report first, and when the speed resolver is
StageEngagementFirst(message) ==
    IF message \in EngagementEntries THEN 1
    ELSE IF message \in SpeedEntries THEN 2
    ELSE IF message \in FeedEntries THEN 3
    ELSE IF message \in PowerEntries THEN 4
    ELSE IF message \in DeflectionStageEntries THEN 5
    ELSE 6

StageSpeedFirst(message) ==
    IF message \in SpeedEntries THEN 1
    ELSE IF message \in EngagementEntries THEN 2
    ELSE StageEngagementFirst(message)

\* the entries of the last call are in the order of their stages
InStageOrder(Stage(_)) ==
    \A i, j \in DOMAIN run.warnings :
        i < j => Stage(run.warnings[i].message) <= Stage(run.warnings[j].message)

\* the detections of the last call, one per condition that held
Detected(condition) == IF condition THEN 1 ELSE 0

Detections ==
    Detected(Lt(run.locals.rpmNominal, calc.spindle.rpm_min)
             \/ Gt(run.locals.rpmNominal, calc.spindle.rpm_max))
    + Detected(calc.userDOC # Null
               /\ Gt(calc.userDOC, getMaxAllowableDOC(calc, run.locals.D)))
    + Detected(BelowThinningThreshold)
    + Detected(Gt(run.locals.vfNominal, FeedCeiling))
    + Detected(OverPower)
    + Detected(SlenderTool /\ Gt(run.locals.deflection, Q(2, 100)))
    + Detected(BelowHalfMinimum /\ calc.tool.type \notin {"drill", "boring"})
    + Detected(AboveMaximumAndHalf)
    + Detected(DeepVCarve) + Detected(FastSlitting) + Detected(HighBoringForce)
    + Detected(SmallToolLoaded) + Detected(VeryDeepDOC)

\* C18 as stated: the warnings of a result hold one entry per detection, in
\* the order engagement resolver (user DOC exceeds maximum), speed resolver
\* (RPM limited), feed resolver (chip thinning, feed limited), power
\* balancer, deflection, chip-load and tool-specific diagnostics
C18_WarningsEngagementFirst ==
    Returned =>
        /\ Len(run.result.warnings) = Detections
        /\ run.result.warnings = run.warnings
        /\ InStageOrder(StageEngagementFirst)

\* C18 as amended: the same with the speed resolver's entries before the
\* engagement resolver's
C18_WarningsSpeedFirst ==
    Returned =>
        /\ Len(run.result.warnings) = Detections
        /\ run.result.warnings = run.warnings
        /\ InStageOrder(StageSpeedFirst)

\* a result holding an RPM entry, then a user-DOC entry, then an entry of a
\* later stage
C18_SpeedThenEngagementThenLater ==
    /\ Returned
    /\ Len(run.warnings) >= 3
    /\ run.warnings[1].message \in SpeedEntries
    /\ run.warnings[2].message \in EngagementEntries
    /\ StageSpeedFirst(run.warnings[3].message) > 2

\* a result with entries of four stages after the first two
FourLaterStages ==
    /\ Returned
    /\ Cardinality({StageSpeedFirst(run.warnings[i].message) :
                       i \in DOMAIN run.warnings} \ {1, 2}) = 4

-----------------------------------------------------------------------------
(* Properties of repeated calls                                            *)

\* the request a calculator was built from
RequestOf(k) == [calc[k] EXCEPT !.warnings = 0]

\* what the result of call i holds now
ResultNow(i) ==
    IF run.returned[i].status = "returned"
    THEN [run.returned[i].result EXCEPT !.warnings = run.heap[@]]
    ELSE NoObject

\* C19: whatever calls were made, on whichever calculators and in whichever
\* order, every result returned so far still holds what it held when it was
\* returned, its warnings list included, and two calls on calculators built
\* from the same request (or on the same calculator) ended the same way with
\* equal results and equal warnings lists
C19_CallsArePure ==
    /\ \A i \in DOMAIN run.returned : ResultNow(i) = run.returned[i].asReturned
    /\ \A i, j \in DOMAIN run.returned :
           RequestOf(run.returned[i].calculator) = RequestOf(run.returned[j].calculator)
               => /\ run.returned[i].status = run.returned[j].status
                  /\ run.returned[i].asReturned = run.returned[j].asReturned
                  /\ ResultNow(i) = ResultNow(j)

\* a calculator called twice, with a call of another calculator built from
\* the same request in between; the three results hold the same two or more
\* warnings
C19_ThreeCallsOneRequest ==
    /\ Len(run.returned) = 3
    /\ run.returned[1].calculator = run.returned[3].calculator
    /\ run.returned[2].calculator # run.returned[1].calculator
    /\ RequestOf(1) = RequestOf(2)
    /\ \A i \in 1..3 :
           /\ run.returned[i].status = "returned"
           /\ Len(ResultNow(i).warnings) >= 2
           /\ ResultNow(i) = ResultNow(1)

\* calls of calculators built from different requests, returning different
\* warnings lists
DifferentRequestsDifferentWarnings ==
    /\ Len(run.returned) = 3
    /\ RequestOf(1) # RequestOf(2)
    /\ run.returned[1].calculator # run.returned[2].calculator
    /\ run.returned[1].status = "returned" /\ run.returned[2].status = "returned"
    /\ ResultNow(1).warnings # ResultNow(2).warnings

\* a call that threw leaves the results returned before it as they were
ThrewAfterReturn ==
    /\ Len(run.returned) = 2
    /\ run.returned[1].status = "returned"
    /\ run.returned[2].status = "threw"

-----------------------------------------------------------------------------
(* Properties of validation and calculateResults()                         *)

\* the machine record carries the three per-axis feed ceilings
CarriesFeedCeilings(machine) ==
    /\ HasObject(machine.max_feed_mm_min)
    /\ isValidNumber(machine.max_feed_mm_min.x)
    /\ isValidNumber(machine.max_feed_mm_min.y)
    /\ isValidNumber(machine.max_feed_mm_min.z)

\* calculators are constructed only after a validation without errors
ConstructedOnlyWhenValid ==
    run.status # "none" =>
        /\ run.validation.isValid = (run.validation.errors = <<>>)
        /\ run.constructed > 0 => run.validation.isValid
        /\ ~run.validation.isValid => run.results = <<>>

\* C20: after calculateResults(), a SpeedsFeedsCalculator was constructed
\* only when validateCalculationInputs returned isValid = true; the machine
\* of a validated input, which validateMachine accepts without errors (the
\* 'custom' preset included), carries max_feed_mm_min.x, .y and .z; and no
\* calculate() on validated input threw
C20_ValidatedInputDoesNotThrow ==
    /\ ConstructedOnlyWhenValid
    /\ (run.status = "calculated" /\ validateMachine(run.machine).errors = <<>>)
           => CarriesFeedCeilings(run.machine)
    /\ run.status = "calculated" =>
           \A i \in DOMAIN run.results : ~Failed(run.results[i])

\* a machine with feed ceilings that are not positive numbers is rejected
InvalidFeedCeilingsRejected ==
    (run.status # "none" /\ HasObject(run.machine.max_feed_mm_min)
     /\ Le(run.machine.max_feed_mm_min.x, I(0)))
        => run.status = "rejected"

\* validated input with a machine that lists no feed ceilings: every
\* calculate() throws
AcceptedWithoutFeedCeilings ==
    /\ run.status = "calculated"
    /\ run.constructed > 0
    /\ ~HasObject(run.machine.max_feed_mm_min)
    /\ \A i \in DOMAIN run.results : Failed(run.results[i])

\* validated input with feed ceilings: every calculate() returns
AcceptedWithFeedCeilings ==
    /\ run.status = "calculated"
    /\ run.constructed > 1
    /\ CarriesFeedCeilings(run.machine)
    /\ \A i \in DOMAIN run.results : ~Failed(run.results[i])

\* C21: a SpeedsFeedsCalculator is only ever constructed with userDOC null
\* or a number > 0, whatever toggles, edits, imports and auto-save loads
\* came before: an enabled override of 0, a negative one or one that is
\* not a number never reaches the calculator.
C21_OverridePositiveOrNull ==
    run.status # "none" =>
        \A i \in DOMAIN run.calculators :
            \/ run.calculators[i].userDOC = Null
            \/ /\ IsNum(run.calculators[i].userDOC)
               /\ Gt(run.calculators[i].userDOC, I(0))

\* a pass that read an enabled override of 0 constructed no calculator
C21_ZeroOverrideRejected ==
    /\ run.status = "rejected"
    /\ probe.customDOC = [enabled |-> TRUE, value |-> I(0)]
    /\ run.cutParams.doc_mm = I(0)
    /\ run.calculators = <<>>

\* a typed override reached the calculator
TypedOverrideConstructed ==
    /\ run.status = "calculated"
    /\ run.calculators[1].userDOC = Q(3, 2)

\* an enabled override without a value is constructed as null
MissingValueConstructedAsNull ==
    /\ run.status = "calculated"
    /\ run.cutParams.doc_mm = Undefined
    /\ run.calculators[1].userDOC = Null

\* the (material, cut type) pairs in material-major order, a material that
\* MATERIALS does not list left out
RECURSIVE CombinationsOf(_, _)
CombinationsOf(materials, cutTypes) ==
    IF materials = <<>> THEN <<>>
    ELSE (IF HasObject(Head(materials))
          THEN [k \in DOMAIN cutTypes |-> <<Head(materials).id, cutTypes[k]>>]
          ELSE <<>>)
         \o CombinationsOf(Tail(materials), cutTypes)

\* the (materialKey, cutType) pairs of the result list
ResultLabels ==
    [i \in DOMAIN run.results |-> <<run.results[i].materialKey, run.results[i].cutType>>]

\* C22: a pass of calculateResults() that passed validation sets results to
\* exactly one entry per (selected material that MATERIALS lists) x (selected
\* cut type), in material-major then cut-type order; a combination whose
\* calculation threw contributes one error entry with one danger warning,
\* and the combinations after it are still calculated.
C22_OneEntryPerCombination ==
    run.status = "calculated" =>
        /\ ResultLabels = CombinationsOf(probe.selectedMaterials, probe.selectedCutTypes)
        /\ Len(calc) = Len(run.results)
        /\ \A i \in DOMAIN run.results :
              /\ Failed(run.results[i]) = (calc[i].status = "threw")
              /\ Failed(run.results[i]) =>
                     /\ Len(run.results[i].warnings) = 1
                     /\ run.results[i].warnings[1].type = "danger"
              /\ ~Failed(run.results[i]) =>
                     run.results[i].warnings = calc[i].result.warnings

\* a pass over two different materials and two cut types stored four results
C22_TwoMaterialsTwoCutTypes ==
    /\ run.status = "calculated"
    /\ Len(probe.selectedMaterials) = 2
    /\ HasObject(probe.selectedMaterials[2])
    /\ probe.selectedMaterials[1].id # probe.selectedMaterials[2].id
    /\ Len(probe.selectedCutTypes) = 2
    /\ Len(run.results) = 4
    /\ \A i \in 1..4 : ~Failed(run.results[i])

\* every combination of a pass threw and each left its error entry
EveryCombinationThrew ==
    /\ run.status = "calculated"
    /\ Len(run.results) = 4
    /\ \A i \in 1..4 : Failed(run.results[i])

\* a selected material that MATERIALS does not list contributes no entry
UnlistedMaterialSkipped ==
    /\ run.status = "calculated"
    /\ Len(probe.selectedMaterials) = 2
    /\ ~HasObject(probe.selectedMaterials[2])
    /\ Len(probe.selectedCutTypes) = 2
    /\ Len(run.results) = 2

\* a pass whose first material is not listed is rejected by validation
UnlistedFirstMaterialRejected ==
    (run.status # "none" /\ Len(probe.selectedMaterials) > 0
     /\ ~HasObject(probe.selectedMaterials[1]))
        => run.status = "rejected"

\* C23: with machine, spindle, tool, material and cut type held fixed, for
\* aggressiveness values a1 <= a2 the nominal surface speed and the nominal
\* chip load computed with a2 are at least those computed with a1.
C23_NominalsGrowWithAggressiveness ==
    probe.done =>
        /\ Le(probe.out.lower.vc, probe.out.higher.vc)
        /\ Le(probe.out.lower.fz, probe.out.higher.fz)

\* both nominal values are strictly larger at the higher aggressiveness
C23_HigherAggressivenessHigherNominals ==
    /\ probe.done
    /\ Lt(probe.in.lower, probe.in.higher)
    /\ Lt(probe.out.lower.vc, probe.out.higher.vc)
    /\ Lt(probe.out.lower.fz, probe.out.higher.fz)

\* the nominal values are proportional to the aggressiveness
NominalsProportionalToAggressiveness ==
    probe.done =>
        /\ Mul(probe.out.lower.vc, probe.in.higher)
               = Mul(probe.out.higher.vc, probe.in.lower)
        /\ Mul(probe.out.lower.fz, probe.in.higher)
               = Mul(probe.out.higher.fz, probe.in.lower)

\* C24: the RPM clamp is a fixed point: applied to an RPM that is already
\* its output, for the same spindle with rpm_min <= rpm_max, it returns the
\* same RPM and appends no RPM warning.
C24_ClampIsFixedPoint ==
    (probe.done /\ Le(calc.spindle.rpm_min, calc.spindle.rpm_max)) =>
        /\ probe.out.second.rpm = probe.out.first.rpm
        /\ probe.out.second.pushed = <<>>

\* an RPM clamped to the spindle maximum stays there without a new warning
C24_ClampedRpmClampedAgain ==
    /\ probe.done
    /\ Le(calc.spindle.rpm_min, calc.spindle.rpm_max)
    /\ Gt(probe.in, calc.spindle.rpm_max)
    /\ Len(probe.out.first.pushed) = 1
    /\ probe.out.first.rpm = calc.spindle.rpm_max
    /\ probe.out.second = [rpm |-> calc.spindle.rpm_max, pushed |-> <<>>]

\* an RPM clamped to the spindle minimum stays there without a new warning
ClampedToMinimumClampedAgain ==
    /\ probe.done
    /\ Lt(probe.in, calc.spindle.rpm_min)
    /\ probe.out.second = [rpm |-> calc.spindle.rpm_min, pushed |-> <<>>]

\* with rpm_min above rpm_max the second clamp moves the RPM again
SwappedLimitsClampTwice ==
    /\ probe.done
    /\ Gt(calc.spindle.rpm_min, calc.spindle.rpm_max)
    /\ probe.out.second.rpm # probe.out.first.rpm
    /\ Len(probe.out.second.pushed) = 1

\* machine, spindle, tool, first material and aggressiveness of the
\* application state pass their validators
OtherInputsValid ==
    /\ validateMachine(getEffectiveMachine(probe)).errors = <<>>
    /\ validateSpindle(probe.spindleConfig) = <<>>
    /\ validateTool(probe.selectedTool) = <<>>
    /\ validateMaterial(InputsOf(probe).material) = <<>>
    /\ isValidNumber(probe.aggressiveness) /\ Gt(probe.aggressiveness, I(0))

\* C25: with the depth override disabled (doc_mm = null) and machine,
\* spindle, tool, material and aggressiveness valid, validateCalculationInputs
\* returns isValid = true without a depth-of-cut error and calculateResults()
\* stores a non-empty result list.
C25_DisabledOverrideValidates ==
    (run.status # "none" /\ ~probe.customDOC.enabled /\ OtherInputsValid) =>
        /\ run.validation.isValid
        /\ \A i \in DOMAIN run.validation.errors :
              run.validation.errors[i] # "Depth of cut must be positive"
        /\ run.results # <<>>

\* what the code does: a pass with the override disabled is rejected with
\* the depth-of-cut error and stores no result
DisabledOverrideRejected ==
    (run.status # "none" /\ ~probe.customDOC.enabled) =>
        /\ run.status = "rejected"
        /\ run.cutParams.doc_mm = Null
        /\ \E i \in DOMAIN run.validation.errors :
              run.validation.errors[i] = "Depth of cut must be positive"
        /\ run.results = <<>>

\* a pass with the override disabled and every other input valid
DisabledOverrideOnlyError ==
    /\ run.status = "rejected"
    /\ ~probe.customDOC.enabled
    /\ OtherInputsValid
    /\ run.validation.errors = <<"Depth of cut must be positive">>

\* the set of the elements of a sequence
RangeOf(seq) == {seq[k] : k \in DOMAIN seq}

\* C26: every result field a consumer reads is a field the producer
\* defines: the fields calculateResults() reads from the record of
\* calculate(), and the fields exportResultsAsCSV and copyResultsToClipboard
\* read, are present in the record built from calculate(),
\* calculateCuttingPower and calculateToolDeflection.
C26_ConsumedFieldsDefined ==
    run.status = "calculated" =>
        \A i \in DOMAIN run.results :
            ~Failed(run.results[i]) =>
                /\ BaseResultReads \subseteq DOMAIN calc[i].result
                /\ RangeOf(CsvNumberFields) \cup RangeOf(ClipboardFields)
                       \subseteq DOMAIN run.results[i]

\* what the code does: of the fields read from calculate()'s record only
\* rpm and doc_mm exist, and of the exported number fields only doc_mm and
\* mrr_mm3_min exist in the combined record
ConsumedFieldsPresent ==
    run.status = "calculated" =>
        \A i \in DOMAIN run.results :
            ~Failed(run.results[i]) =>
                /\ BaseResultReads \cap DOMAIN calc[i].result = {"rpm", "doc_mm"}
                /\ (RangeOf(CsvNumberFields) \cup RangeOf(ClipboardFields))
                       \cap DOMAIN run.results[i] = {"doc_mm", "mrr_mm3_min"}

\* the exported row of a calculated result: feed, chip load, width, power,
\* force and deflection are empty, and so is the removal rate, overwritten
\* by the NaN of calculateCuttingPower; the clipboard text prints undefined
ExportedCellsEmpty ==
    /\ ("csv" \in DOMAIN run) =>
           \A i \in DOMAIN run.csv :
               ~Failed(run.results[i]) =>
                   /\ \A k \in {6, 7, 8, 10, 11, 12, 13} : run.csv[i][k] = <<>>
                   /\ run.csv[i][5] # <<>> /\ run.csv[i][9] # <<>>
    /\ ("clipboard" \in DOMAIN run) =>
           \A i \in DOMAIN run.clipboard :
               ~Failed(run.results[i]) =>
                   \A k \in 4..7 : run.clipboard[i][k][2] = Undefined

\* a calculated result was exported and copied
ExportedAndCopied ==
    /\ run.status = "calculated"
    /\ "csv" \in DOMAIN run /\ "clipboard" \in DOMAIN run
    /\ Len(run.results) = 2
    /\ ~Failed(run.results[1])

\* a call for a tool other than a drill or a V-bit, without user override
StandardEngagement ==
    /\ Ran
    /\ calc.tool.type \notin {"drill", "vbit"}
    /\ calc.userDOC = Null

\* C27: for every tool variant other than drill and V-bit, with no user
\* override, the ap of the engagement resolver never exceeds the material's
\* maximum allowable depth of cut getMaxAllowableDOC(D), for every
\* machine.aggressiveness.axial of the presets.
C27_ApWithinMaterialMaximum ==
    StandardEngagement =>
        Le(run.locals.ap, getMaxAllowableDOC(calc, run.locals.D))

\* C27 as amended: the ap never exceeds getMaxAllowableDOC(D) x
\* machine.aggressiveness.axial, and so never exceeds getMaxAllowableDOC(D)
\* on a preset whose axial value is at most 1.0.
C27_ApWithinScaledMaterialMaximum ==
    StandardEngagement =>
        /\ Le(run.locals.ap,
              Mul(getMaxAllowableDOC(calc, run.locals.D),
                  calc.machine.aggressiveness.axial))
        /\ Le(calc.machine.aggressiveness.axial, I(1)) =>
               Le(run.locals.ap, getMaxAllowableDOC(calc, run.locals.D))

\* on the preset with axial 1.4 the material's limit binds and the ap is
\* 1.4 times the maximum allowable depth of cut
C27_ApAboveMaterialMaximum ==
    /\ StandardEngagement
    /\ calc.machine.aggressiveness.axial = Q(14, 10)
    /\ Gt(run.locals.ap, getMaxAllowableDOC(calc, run.locals.D))
    /\ run.locals.ap = Mul(getMaxAllowableDOC(calc, run.locals.D), Q(14, 10))

\* on a preset with axial 0.6 the ap stays below the maximum
ApBelowMaterialMaximum ==
    /\ StandardEngagement
    /\ calc.machine.aggressiveness.axial = Q(6, 10)
    /\ Lt(run.locals.ap, getMaxAllowableDOC(calc, run.locals.D))

-----------------------------------------------------------------------------
(* Consistency of feed and chip load                                       *)

\* RPM x flutes x chip load, as line 61 computes it
FeedOfChipload(i, f) == FlMul(FlMul(i.rpm, i.z), f.fzAdjusted)

NominalFeedIsProduct ==
    probe.done => probe.out.nominal.vf = FeedOfChipload(probe.in, probe.out.nominal)

\* a clamped feed whose chip load gives back another feed
ClampedFeedOffProduct ==
    /\ probe.done
    /\ probe.out.clamped.limited
    /\ probe.out.clamped.vf # FeedOfChipload(probe.in, probe.out.clamped)

\* a power-scaled feed whose chip load gives back another feed
ScaledFeedOffProduct ==
    /\ probe.done
    /\ ~probe.out.clamped.limited
    /\ probe.out.scaled.limited
    /\ probe.out.scaled.vf # FeedOfChipload(probe.in, probe.out.scaled)

\* without rounding the three stages keep the product
FeedEqualsRpmFlutesChiploadExact ==
    Returned =>
        LET l == run.locals
            rz == Mul(l.rpm, l.z)
        IN  /\ l.vfNominal = Mul(rz, l.fz)
            /\ l.vfClamped = Mul(rz, l.fzClamped)
            /\ l.vf = Mul(rz, l.fzAdjusted)

-----------------------------------------------------------------------------
(* Reported power                                                          *)

\* calculateImprovedPower of the feed handed to the power check
PowerBeforeScaling ==
    calculateImprovedPower(calc, run.locals.ae, run.locals.ap, run.locals.vfClamped)

\* entries 'Power limited' of the returned record
PowerLimitedEntries ==
    Cardinality({i \in DOMAIN run.result.warnings :
                     run.result.warnings[i].message = "Power limited"})

\* C29: the record calculate() returns reports the required power of the
\* feed before power scaling and the available power at the clamped RPM,
\* both rounded; it carries one 'Power limited' warning exactly when that
\* required power is > 0.9 x that available power and none otherwise, and
\* in a power-limited record the feed is below the one the reported power
\* was computed for.
C29_ReportedPowerIsBeforeScaling ==
    Returned =>
        /\ run.result.power_W = Round(PowerBeforeScaling)
        /\ run.result.power_available_W
               = Round(getSpindlePowerAtRPM(calc, run.locals.rpm))
        /\ PowerLimitedEntries
               = IF Gt(PowerBeforeScaling,
                       Mul(getSpindlePowerAtRPM(calc, run.locals.rpm), Q(9, 10)))
                 THEN 1 ELSE 0
        /\ PowerLimitedEntries = 1
               => /\ Lt(run.locals.vf, run.locals.vfClamped)
                  /\ Gt(run.locals.powerRequired,
                        Mul(run.locals.powerAvailable, Q(9, 10)))

\* a power-limited record whose rounded required power is above 90% of its
\* rounded available power and above the power of the feed it reports
C29_PowerLimitedReportsUnscaledPower ==
    /\ Returned
    /\ PowerLimitedEntries = 1
    /\ Lt(run.locals.vf, run.locals.vfClamped)
    /\ Gt(I(run.result.power_W), Mul(I(run.result.power_available_W), Q(9, 10)))
    /\ run.result.power_W
           > Round(calculateImprovedPower(calc, run.locals.ae, run.locals.ap,
                                          run.locals.vf))

\* a record without the warning reports a required power within 90%
NotLimitedReportsWithinBudget ==
    /\ Returned
    /\ PowerLimitedEntries = 0
    /\ Le(run.locals.powerRequired, Mul(run.locals.powerAvailable, Q(9, 10)))
    /\ run.locals.vf = run.locals.vfClamped

-----------------------------------------------------------------------------
(* Extreme geometry                                                        *)

\* stickout_mm / diameter_mm > 10 for a tool with both positive
ExtremeAspectRatio(tool) ==
    /\ HasObject(tool)
    /\ isValidNumber(tool.diameter_mm) /\ Gt(tool.diameter_mm, I(0))
    /\ isValidNumber(tool.stickout_mm) /\ Gt(tool.stickout_mm, I(0))
    /\ Gt(Div(tool.stickout_mm, tool.diameter_mm), I(10))

\* doc_mm / diameter_mm > 3 for inputs with both positive
ExtremeDepthOfCut(inputs) ==
    /\ HasObject(inputs.tool) /\ HasObject(inputs.material)
    /\ HasObject(inputs.spindle)
    /\ isValidNumber(inputs.tool.diameter_mm) /\ Gt(inputs.tool.diameter_mm, I(0))
    /\ isValidNumber(inputs.cutParams.doc_mm) /\ Gt(inputs.cutParams.doc_mm, I(0))
    /\ Gt(Div(inputs.cutParams.doc_mm, inputs.tool.diameter_mm), I(3))

\* C30: validateTool returns an 'Extreme aspect ratio' error whenever
\* stickout_mm / diameter_mm > 10 and validateCombinations an 'Extreme depth
\* of cut' error whenever doc_mm / diameter_mm > 3, and
\* validateCalculationInputs reports isValid = false for such inputs.
C30_ExtremeGeometryRejected ==
    run.status # "none" =>
        /\ ExtremeAspectRatio(probe.selectedTool)
               => /\ "Extreme aspect ratio - likely to break"
                         \in RangeOf(validateTool(probe.selectedTool))
                  /\ "Extreme aspect ratio - likely to break"
                         \in RangeOf(run.validation.errors)
                  /\ ~run.validation.isValid
        /\ ExtremeDepthOfCut(InputsOf(probe))
               => /\ "Extreme depth of cut - likely to break tool"
                         \in RangeOf(validateCombinations(InputsOf(probe)))
                  /\ "Extreme depth of cut - likely to break tool"
                         \in RangeOf(run.validation.errors)
                  /\ ~run.validation.isValid

\* what the code does: neither error is ever reported, and the extreme
\* ratios draw the notes of the ratios above 6 and above 2
ExtremeGeometryOnlyNoted ==
    run.status # "none" =>
        /\ "Extreme aspect ratio - likely to break" \notin RangeOf(run.validation.errors)
        /\ "Extreme depth of cut - likely to break tool"
               \notin RangeOf(run.validation.errors)
        /\ ExtremeAspectRatio(probe.selectedTool)
               => aspectRatioWarnings(probe.selectedTool)
                      = <<"High aspect ratio - expect high deflection">>
        /\ ExtremeDepthOfCut(InputsOf(probe))
               => docRatioWarnings(InputsOf(probe))
                      = <<"Deep cut relative to tool diameter - expect high forces">>

\* a pass over a tool with aspect ratio above 10 and a depth above 3
\* diameters that validates and calculates
ExtremeGeometryAccepted ==
    /\ run.status = "calculated"
    /\ ExtremeAspectRatio(probe.selectedTool)
    /\ ExtremeDepthOfCut(InputsOf(probe))
    /\ run.validation.isValid
    /\ run.results # <<>>

=============================================================================
